---- MODULE Spec2Model ----
(***************************************************************************)
(* CourseWeave data pipeline: the normaliser (preprocess_data.py), the     *)
(* schema validator (validate_data.py), the anomaly queries                *)
(* (detect_anomalies.py), the bias analysis and the Airflow DAG            *)
(* (pipeline_dag.py).  Each part is a state machine of its own over the    *)
(* shared variable tuple; a part that is not running keeps its variables   *)
(* at their idle values.                                                   *)
(***************************************************************************)
EXTENDS Integers, Sequences, FiniteSets, TLC

VARIABLES
    \* ---- detect_circular_prerequisites (recursive CTE) ----
    prerequisites,   \* the prerequisites table: set of <<course_code, required_course_code>>
    prereq_chain,    \* rows accumulated by WITH RECURSIVE prereq_chain
    working,         \* the rows produced by the last iteration (the working table)
    cte_pc,          \* "idle" | "base" | "recursive" | "select" | "done"
    circular_rows,   \* the rows returned by detect_circular_prerequisites
    \* ---- preprocess_data (the normaliser) ----
    raw_courses,     \* raw["courses"]: sequence of rows, in input order
    raw_prereqs,     \* raw["prerequisites"]
    df,              \* the local frame of preprocess_courses after dropna
    courses_clean,   \* preprocess_courses(raw["courses"])
    valid_codes,     \* set(courses_clean["course_code"])
    prereqs_clean,   \* preprocess_prerequisites(raw["prerequisites"], valid_codes)
    cleaned_again,   \* preprocess_data applied to its own output
    norm_pc,         \* "idle" | "dropna" | "normalise" | "codes" | "prereqs" | "done" | "done2"
    \* ---- validate_courses / validate_prerequisites (one call) ----
    v_fn,            \* "none" | "validate_courses" | "validate_prerequisites"
    v_df,            \* the frame passed to the call
    v_columns,       \* df.columns of that frame
    v_codes,         \* the valid_codes argument of validate_prerequisites
    v_out,           \* [raised, violations]: the exception raised or the list returned
    \* ---- task_bias_detection ----
    b_courses,       \* cleaned courses read by the task: rows per (program_code, credits)
    bias_report,     \* the bias_report dict
    b_saved,         \* bias_report.json written in this call
    b_pc,            \* "idle" | "read" | "success" | "failed"
    b_fairlearn,     \* the fairlearn block of the call: "none" | "ok" | "raised"
    b_uploaded,      \* bias_report.json uploaded to GCS in this call
    \* ---- one run of the DAG courseweave_data_pipeline ----
    p_raw,           \* the raw files written by acquire_data: <<>> or <<[courses, prerequisites]>>
    p_cleaned,       \* the cleaned files written by preprocess_data: <<>> or <<[courses, prerequisites]>>
    p_ti,            \* task id -> state of its task instance
    p_try,           \* task id -> failed tries of a task that has not succeeded yet
    p_exc,           \* task id -> the exception its last try raised
    p_stats,         \* stats_report.json as written in this run: <<>> or <<stats>>
    p_committed,     \* the tables load_data has committed to in this run
    p_report,        \* pipeline_report.json as written in this run: <<>> or <<report>>
    p_db,            \* the database the run finds: the number of rows each anomaly query returns
    p_anomalies,     \* the results of the last detect_anomalies() call that returned: <<>> or <<results>>
    \* ---- detect_missing_prerequisites ----
    students,        \* the students table: id -> email
    student_courses, \* the student_courses table: set of <<student_id, course_code>>
    a_prereqs,       \* the prerequisites table the audit joins: set of <<course_code, required_course_code>>
    missing_rows,    \* the rows returned by detect_missing_prerequisites: row -> number of copies
    a_pc,            \* "idle" | "query" | "done"
    \* ---- load_data ----
    db_courses,      \* the courses table: set of rows, course_code is its key
    db_prereqs,      \* the prerequisites table: set of <<course_code, required_course_code>>
    l_cleaned,       \* the argument of load_data: [courses, prerequisites]
    l_run,           \* the number of the load_data call in progress
    l_pc,            \* "idle" | "courses" | "prerequisites" | "returned" | "raised"
    l_inserted,      \* what load_courses returned in this call
    l_log,           \* per finished call: what it returned or raised, and the tables it left
    \* ---- connections and transactions ----
    t_fn,           \* the function that was called
    t_pc,           \* where the call is: connect, execute, commit, rollback, close, returned, raised
    t_open,         \* connections that are open
    t_rows,         \* rows of the frame the call loads
    t_executed,     \* statements the call has executed
    t_persisted,    \* rows of the call that are committed
    t_exc,          \* the exception that is propagating
    t_calls,        \* calls made so far
    \* ---- send_slack_alert ----
    s_body,         \* what the work of the calling task raised, "none" when it did not
    s_webhook,      \* SLACK_WEBHOOK_URL: "unset" | "set"
    s_pc,           \* "idle" | "post" | "except" | "returned" | "raised" | "done"
    s_exc,          \* the exception raised inside send_slack_alert
    s_posted,       \* requests.post was called
    s_log,          \* the level of the record send_slack_alert logged
    s_outcome,      \* how the task ended: "success" or the exception it raised
    s_tasks,        \* tasks finished so far
    \* ---- run_pipeline of pdf-extract.py ----
    d_tracker,      \* the tracker file in GCS: set of <<blob name, checksum>>
    d_blobs,        \* pdf_blobs: the blobs listed, each [name, checksum of its bytes]
    d_i,            \* the number of blobs the loop has handled
    d_results,      \* pipeline_results: [success, failed, skipped]
    d_summary,      \* the summary run_pipeline returned, <<>> when it did not
    d_pc,           \* "idle" | "loop" | "summary" | "returned" | "raised"
    d_runs          \* calls of run_pipeline so far

cycleVars == <<prerequisites, prereq_chain, working, cte_pc, circular_rows>>
normVars  == <<raw_courses, raw_prereqs, df, courses_clean, valid_codes, prereqs_clean,
               cleaned_again, norm_pc>>

valVars   == <<v_fn, v_df, v_columns, v_codes, v_out>>
biasVars  == <<b_courses, bias_report, b_saved, b_pc, b_fairlearn, b_uploaded>>
pipeVars  == <<p_raw, p_cleaned, p_ti, p_try, p_exc, p_stats, p_committed, p_report,
               p_db, p_anomalies>>
auditVars == <<students, student_courses, a_prereqs, missing_rows, a_pc>>
loadVars == <<db_courses, db_prereqs, l_cleaned, l_run, l_pc, l_inserted, l_log>>
txnVars == <<t_fn, t_pc, t_open, t_rows, t_executed, t_persisted, t_exc, t_calls>>
alertVars == <<s_body, s_webhook, s_pc, s_exc, s_posted, s_log, s_outcome, s_tasks>>
pdfVars == <<d_tracker, d_blobs, d_i, d_results, d_summary, d_pc, d_runs>>

vars == <<prerequisites, prereq_chain, working, cte_pc, circular_rows,
          raw_courses, raw_prereqs, df, courses_clean, valid_codes, prereqs_clean,
          cleaned_again, norm_pc,
          v_fn, v_df, v_columns, v_codes, v_out,
          b_courses, bias_report, b_saved, b_pc, b_fairlearn, b_uploaded,
          p_raw, p_cleaned, p_ti, p_try, p_exc, p_stats, p_committed, p_report,
          p_db, p_anomalies,
          students, student_courses, a_prereqs, missing_rows, a_pc,
          db_courses, db_prereqs, l_cleaned, l_run, l_pc, l_inserted, l_log,
          t_fn, t_pc, t_open, t_rows, t_executed, t_persisted, t_exc, t_calls,
          s_body, s_webhook, s_pc, s_exc, s_posted, s_log, s_outcome, s_tasks,
          d_tracker, d_blobs, d_i, d_results, d_summary, d_pc, d_runs>>

(***************************************************************************)
(* The values a part's variables keep while that part is not running.      *)
(***************************************************************************)
CycleIdle ==
    /\ prerequisites = {}
    /\ prereq_chain = {}
    /\ working = {}
    /\ cte_pc = "idle"
    /\ circular_rows = {}

NormIdle ==
    /\ raw_courses = <<>>
    /\ raw_prereqs = <<>>
    /\ df = <<>>
    /\ courses_clean = <<>>
    /\ valid_codes = {}
    /\ prereqs_clean = <<>>
    /\ cleaned_again = [courses |-> <<>>, prerequisites |-> <<>>]
    /\ norm_pc = "idle"

ValIdle ==
    /\ v_fn = "none"
    /\ v_df = <<>>
    /\ v_columns = {}
    /\ v_codes = {}
    /\ v_out = [raised |-> "none", violations |-> <<>>]

EmptyReport ==
    [ program_coverage |-> <<>>, credit_distribution |-> <<>>,
      bias_flags |-> <<>>, fairlearn_by_group |-> FALSE ]

BiasIdle ==
    /\ b_courses = <<>>
    /\ bias_report = EmptyReport
    /\ b_saved = FALSE
    /\ b_pc = "idle"
    /\ b_fairlearn = "none"
    /\ b_uploaded = FALSE

PipeIdle ==
    /\ p_raw = <<>>
    /\ p_cleaned = <<>>
    /\ p_ti = <<>>
    /\ p_try = <<>>
    /\ p_exc = <<>>
    /\ p_stats = <<>>
    /\ p_committed = {}
    /\ p_report = <<>>
    /\ p_db = <<>>
    /\ p_anomalies = <<>>

AuditIdle ==
    /\ students = <<>>
    /\ student_courses = {}
    /\ a_prereqs = {}
    /\ missing_rows = <<>>
    /\ a_pc = "idle"

LoadIdle ==
    /\ db_courses = {}
    /\ db_prereqs = {}
    /\ l_cleaned = <<>>
    /\ l_run = 0
    /\ l_pc = "idle"
    /\ l_inserted = 0
    /\ l_log = <<>>

TxnIdle ==
    /\ t_fn = "none"
    /\ t_pc = "idle"
    /\ t_open = 0
    /\ t_rows = 0
    /\ t_executed = 0
    /\ t_persisted = 0
    /\ t_exc = "none"
    /\ t_calls = 0

AlertIdle ==
    /\ s_body = "none"
    /\ s_webhook = "unset"
    /\ s_pc = "idle"
    /\ s_exc = "none"
    /\ s_posted = FALSE
    /\ s_log = "none"
    /\ s_outcome = "none"
    /\ s_tasks = 0

PdfIdle ==
    /\ d_tracker = {}
    /\ d_blobs = <<>>
    /\ d_i = 0
    /\ d_results = [success |-> <<>>, failed |-> <<>>, skipped |-> <<>>]
    /\ d_summary = <<>>
    /\ d_pc = "idle"
    /\ d_runs = 0

(***************************************************************************)
(* Bounds                                                                  *)
(***************************************************************************)
NumCourses == 3      \* distinct course codes in the prerequisites table
MaxEdges   == 4      \* rows of the prerequisites table
MaxRows    == 2      \* rows of a raw courses frame
MaxPrereqRows == 2   \* rows of a raw prerequisites frame
MaxCourses == 10     \* rows of the cleaned courses frame read by bias detection
MaxUnexpectedCredits == 1   \* rows of that frame whose credits are not 4
MaxCompletions == 3  \* rows of the student_courses table
MaxAuditEdges == 2   \* rows of the prerequisites table joined by the audit
MaxLoadRows == 2     \* rows of a frame passed to load_data
MaxLoads == 2        \* successive calls of load_data
MaxGroupRows == 4    \* rows with credits 4 of one program in a two-program frame
MaxGroupOdd == 1     \* rows of one program with one other credits value
MaxTxnRows == 2      \* rows of the frame one loader call inserts
MaxTxnCalls == 3     \* successive calls of the functions that open a connection
MaxAlertTasks == 4   \* tasks that call send_slack_alert one after the other
MaxPdfs == 3         \* PDF blobs under the folder
MaxPdfRuns == 2      \* successive calls of run_pipeline

DbCodes == 1..NumCourses

(***************************************************************************)
(* detect_circular_prerequisites: the recursive CTE, evaluated the way     *)
(* PostgreSQL evaluates WITH RECURSIVE: the non-recursive term fills the   *)
(* result and the working table, then the recursive term is applied to     *)
(* the working table until it yields no row.  A chain row is determined    *)
(* by its visited path and its edge, and the table has one row per pair,   *)
(* so UNION ALL never yields the same row twice and a set holds the rows.  *)
(***************************************************************************)
ChainRow(c, r, v, cyc) ==
    [course_code |-> c, required_course_code |-> r, visited |-> v, is_cycle |-> cyc]

InSeq(x, s) == \E i \in 1..Len(s) : s[i] = x

\* SELECT course_code, required_course_code, ARRAY[course_code], FALSE FROM prerequisites
BaseTerm(table) ==
    { ChainRow(e[1], e[2], <<e[1]>>, FALSE) : e \in table }

\* the join condition and WHERE clause of the recursive term
JoinsSkipSelf(p, pc) ==
    /\ p[1] = pc.required_course_code
    /\ ~pc.is_cycle
    /\ p[1] # pc.course_code

\* a chain that closed a cycle joined again
JoinsCycleRows(p, pc) == p[1] = pc.required_course_code

Joins(p, pc) ==
    /\ p[1] = pc.required_course_code
    /\ ~pc.is_cycle

\* SELECT p.course_code, p.required_course_code, visited || p.course_code,
\*        p.course_code = ANY(visited)
\* FROM prerequisites p JOIN prereq_chain pc ON ... WHERE NOT pc.is_cycle
RecursiveTerm(table, work) ==
    { ChainRow(pr[1][1], pr[1][2],
               Append(pr[2].visited, pr[1][1]),
               InSeq(pr[1][1], pr[2].visited)) :
        pr \in { x \in table \X work : Joins(x[1], x[2]) } }

InitCycle ==
    /\ prerequisites \in { t \in SUBSET (DbCodes \X DbCodes) : Cardinality(t) <= MaxEdges }
    /\ prereq_chain = {}
    /\ working = {}
    /\ cte_pc = "base"
    /\ circular_rows = {}
    /\ NormIdle
    /\ ValIdle
    /\ BiasIdle
    /\ PipeIdle
    /\ AuditIdle
    /\ LoadIdle
    /\ TxnIdle
    /\ AlertIdle
    /\ PdfIdle

CteBase ==
    /\ cte_pc = "base"
    /\ prereq_chain' = BaseTerm(prerequisites)
    /\ working' = BaseTerm(prerequisites)
    /\ cte_pc' = "recursive"
    /\ UNCHANGED <<prerequisites, circular_rows>>
    /\ UNCHANGED <<normVars, valVars, biasVars, pipeVars, auditVars, loadVars, txnVars, alertVars, pdfVars>>

CteRecurse ==
    /\ cte_pc = "recursive"
    /\ working # {}
    /\ working' = RecursiveTerm(prerequisites, working)
    /\ prereq_chain' = prereq_chain \cup RecursiveTerm(prerequisites, working)
    /\ UNCHANGED <<prerequisites, cte_pc, circular_rows>>
    /\ UNCHANGED <<normVars, valVars, biasVars, pipeVars, auditVars, loadVars, txnVars, alertVars, pdfVars>>

CteFixpoint ==
    /\ cte_pc = "recursive"
    /\ working = {}
    /\ cte_pc' = "select"
    /\ UNCHANGED <<prerequisites, prereq_chain, working, circular_rows>>
    /\ UNCHANGED <<normVars, valVars, biasVars, pipeVars, auditVars, loadVars, txnVars, alertVars, pdfVars>>

\* SELECT DISTINCT course_code, required_course_code FROM prereq_chain WHERE is_cycle = TRUE
CteSelect ==
    /\ cte_pc = "select"
    /\ circular_rows' = { <<row.course_code, row.required_course_code>> :
                            row \in { x \in prereq_chain : x.is_cycle = TRUE } }
    /\ cte_pc' = "done"
    /\ UNCHANGED <<prerequisites, prereq_chain, working>>
    /\ UNCHANGED <<normVars, valVars, biasVars, pipeVars, auditVars, loadVars, txnVars, alertVars, pdfVars>>

SpecCycle == InitCycle /\ [][
    \/ CteBase
    \/ CteRecurse
    \/ CteFixpoint
    \/ CteSelect
  ]_vars

(***************************************************************************)
(* Cell values.  A string cell is a sequence of one-character strings, so  *)
(* that strip, upper and title are computed character by character.  A     *)
(* missing string cell is None; a missing cell of the numeric credits      *)
(* column is NaN.                                                          *)
(***************************************************************************)
None == <<"None">>
NaN  == -99

\* isnull() of a string cell and of a credits cell
IsNullStr(v) == v = None
IsNullNum(v) == v = NaN

LowerCase == <<"a","b","c","d","e","f","g","h","i","j","k","l","m",
               "n","o","p","q","r","s","t","u","v","w","x","y","z">>
UpperCase == <<"A","B","C","D","E","F","G","H","I","J","K","L","M",
               "N","O","P","Q","R","S","T","U","V","W","X","Y","Z">>

IndexOf(ch, s) == CHOOSE i \in 1..Len(s) : s[i] = ch
IsLower(ch) == InSeq(ch, LowerCase)
IsUpper(ch) == InSeq(ch, UpperCase)
ToUpper(ch) == IF IsLower(ch) THEN UpperCase[IndexOf(ch, LowerCase)] ELSE ch

\* str.strip(): leading and trailing whitespace removed
RECURSIVE lstrip(_)
lstrip(s) == IF s # <<>> /\ Head(s) = " " THEN lstrip(Tail(s)) ELSE s
RECURSIVE rstrip(_)
rstrip(s) == IF s # <<>> /\ s[Len(s)] = " " THEN rstrip(SubSeq(s, 1, Len(s) - 1)) ELSE s
str_strip(s) == rstrip(lstrip(s))

\* str.upper()
str_upper(s) == [i \in 1..Len(s) |-> ToUpper(s[i])]

\* str.title(): a cased character is upper-cased when it follows an uncased
\* one (or starts the string) and lower-cased otherwise
str_title(s) ==
    [i \in 1..Len(s) |->
        IF i = 1 \/ ~(IsLower(s[i - 1]) \/ IsUpper(s[i - 1]))
        THEN ToUpper(s[i])
        ELSE IF IsUpper(s[i]) THEN LowerCase[IndexOf(s[i], UpperCase)] ELSE s[i]]

\* astype(str): a string stays as it is, a missing value becomes its name
astype_str(v) == IF v = None THEN <<"N","o","n","e">> ELSE v

\* the rows of frame f whose index is in keep, in frame order
RECURSIVE TakeRows(_, _, _)
TakeRows(f, keep, i) ==
    IF i > Len(f) THEN <<>>
    ELSE (IF i \in keep THEN <<f[i]>> ELSE <<>>) \o TakeRows(f, keep, i + 1)

Rows(f, keep) == TakeRows(f, keep, 1)

VALID_PROGRAM_CODES ==
    { <<"M","S","_","D","A","E">>, <<"M","S","_","D","S">>, <<"M","S","_","C","S">>,
      <<"M","S","_","D","A">>, <<"M","S","_","I","S">> }
VALID_COURSE_TYPES ==
    { <<"C","o","r","e">>, <<"E","l","e","c","t","i","v","e">> }
VALID_CREDITS == {4}

(***************************************************************************)
(* preprocess_courses                                                      *)
(***************************************************************************)
dropna_code_only(f) == Rows(f, { i \in 1..Len(f) : ~IsNullStr(f[i].course_code) })

\* required = ["course_code", "course_name", "credits", "program_code", "course_type"]
\* df.dropna(subset=required)
dropna_courses(f) ==
    LET HasNullRequired(r) ==
            \/ IsNullStr(r.course_code)
            \/ IsNullStr(r.course_name)
            \/ IsNullNum(r.credits)
            \/ IsNullStr(r.program_code)
            \/ IsNullStr(r.course_type)
    IN  Rows(f, { i \in 1..Len(f) : ~HasNullRequired(f[i]) })

\* for col in str_cols: df[col] = df[col].astype(str).str.strip(); then
\* course_code and program_code upper-cased, course_type title-cased
NormaliseRow(r) ==
    [ course_code  |-> str_upper(str_strip(astype_str(r.course_code))),
      course_name  |-> str_strip(astype_str(r.course_name)),
      credits      |-> r.credits,
      program_code |-> str_upper(str_strip(astype_str(r.program_code))),
      course_type  |-> str_title(str_strip(astype_str(r.course_type))) ]

NormaliseStrings(f) == [i \in 1..Len(f) |-> NormaliseRow(f[i])]

drop_duplicates_keep_last(f) ==
    Rows(f, { i \in 1..Len(f) :
                ~\E j \in (i + 1)..Len(f) : f[j].course_code = f[i].course_code })

\* df.drop_duplicates(subset=["course_code"]): the first row of each code is kept
drop_duplicates_courses(f) ==
    Rows(f, { i \in 1..Len(f) :
                ~\E j \in 1..(i - 1) : f[j].course_code = f[i].course_code })

\* unknown program codes logged and kept
KeepProgramCodes(f) == f

\* df = df[~invalid_programs]
FilterProgramCodes(f) ==
    Rows(f, { i \in 1..Len(f) : f[i].program_code \in VALID_PROGRAM_CODES })

\* df = df[~invalid_types]
FilterCourseTypes(f) ==
    Rows(f, { i \in 1..Len(f) : f[i].course_type \in VALID_COURSE_TYPES })

\* unexpected credits removed like unknown program codes and course types
DropUnexpectedCredits(f) ==
    LET g == FilterCourseTypes(FilterProgramCodes(drop_duplicates_courses(NormaliseStrings(f))))
    IN  Rows(g, { i \in 1..Len(g) : g[i].credits \in VALID_CREDITS })

\* invalid rows filtered out before the duplicates are dropped
FilterBeforeDedup(f) ==
    drop_duplicates_courses(FilterCourseTypes(FilterProgramCodes(NormaliseStrings(f))))

DedupBeforeNormalise(f) ==
    FilterCourseTypes(FilterProgramCodes(NormaliseStrings(drop_duplicates_courses(f))))

\* lines 42-83 of preprocess_courses, applied to the frame left by dropna;
\* the credits check only logs
NormaliseAndFilter(f) ==
    FilterCourseTypes(FilterProgramCodes(drop_duplicates_courses(NormaliseStrings(f))))

preprocess_courses(f) == NormaliseAndFilter(dropna_courses(f))

(***************************************************************************)
(* preprocess_prerequisites                                                *)
(***************************************************************************)
NormalisePrereqRow(r) ==
    [ course_code          |-> str_upper(str_strip(astype_str(r.course_code))),
      required_course_code |-> str_upper(str_strip(astype_str(r.required_course_code))) ]

\* repeated pairs kept
keep_duplicate_prereqs(f) == f

\* df.drop_duplicates(subset=["course_code", "required_course_code"])
drop_duplicates_prereqs(f) ==
    Rows(f, { i \in 1..Len(f) : ~\E j \in 1..(i - 1) : f[j] = f[i] })

OrphanedBoth(r, valid_course_codes) ==
    ~(r.course_code \in valid_course_codes) /\ ~(r.required_course_code \in valid_course_codes)

\* orphaned = ~(course_code.isin(valid) & required_course_code.isin(valid))
Orphaned(r, valid_course_codes) ==
    ~(r.course_code \in valid_course_codes /\ r.required_course_code \in valid_course_codes)

preprocess_prerequisites(f, valid_course_codes) ==
    LET \* df.dropna(subset=["course_code", "required_course_code"])
        kept == Rows(f, { i \in 1..Len(f) :
                            /\ ~IsNullStr(f[i].course_code)
                            /\ ~IsNullStr(f[i].required_course_code) })
        d == drop_duplicates_prereqs([i \in 1..Len(kept) |-> NormalisePrereqRow(kept[i])])
    IN  Rows(d, { i \in 1..Len(d) : ~Orphaned(d[i], valid_course_codes) })

\* set(courses_clean["course_code"])
CodesOf(f) == { f[i].course_code : i \in 1..Len(f) }

\* preprocess_data(raw)
preprocess_data(raw) ==
    LET cc == preprocess_courses(raw.courses)
    IN  [ courses       |-> cc,
          prerequisites |-> preprocess_prerequisites(raw.prerequisites, CodesOf(cc)) ]

(***************************************************************************)
(* Raw inputs of the normaliser.  A raw course row is a well-formed row    *)
(* (code spelled canonically or in lower case with surrounding blanks)     *)
(* with at most one cell replaced by a missing, invalid or differently     *)
(* spelled value; a raw frame holds up to MaxRows such rows in any order.  *)
(***************************************************************************)
RawCodes == { <<"C","1">>, <<" ","c","1"," ">>, <<"C","2">> }

WellFormed(code) ==
    [ course_code  |-> code,
      course_name  |-> <<" ","n"," ">>,
      credits      |-> 4,
      program_code |-> <<"M","S","_","C","S">>,
      course_type  |-> <<"C","o","r","e">> ]

RawCourseRows ==
    LET Variants(r) ==
          {r}
          \cup { [r EXCEPT !.course_code = None], [r EXCEPT !.course_name = None] }
          \cup { [r EXCEPT !.credits = c] : c \in {NaN, 0, -1} }
          \cup { [r EXCEPT !.program_code = p] :
                   p \in { None, <<" ","m","s","_","d","s">>, <<"M","S","_","F","A","K","E">> } }
          \cup { [r EXCEPT !.course_type = t] :
                   t \in { None, <<"e","l","e","c","t","i","v","e"," ">>,
                           <<"M","a","n","d","a","t","o","r","y">> } }
    IN  UNION { Variants(WellFormed(c)) : c \in RawCodes }

RawEndpoints == RawCodes \cup {None}

RawPrereqRows ==
    { [course_code |-> a, required_course_code |-> b] :
        a \in RawEndpoints, b \in RawEndpoints }

\* the sequences over S of length at most n
SeqsUpTo(S, n) == UNION { [1..k -> S] : k \in 0..n }

InitNorm ==
    /\ raw_courses \in SeqsUpTo(RawCourseRows, MaxRows)
    /\ raw_prereqs = <<>>
    /\ df = <<>>
    /\ courses_clean = <<>>
    /\ valid_codes = {}
    /\ prereqs_clean = <<>>
    /\ cleaned_again = [courses |-> <<>>, prerequisites |-> <<>>]
    /\ norm_pc = "dropna"
    /\ CycleIdle
    /\ ValIdle
    /\ BiasIdle
    /\ PipeIdle
    /\ AuditIdle
    /\ LoadIdle
    /\ TxnIdle
    /\ AlertIdle
    /\ PdfIdle

\* preprocess_courses, lines 34-40: rows with a null required field go first
DropNulls ==
    /\ norm_pc = "dropna"
    /\ df' = dropna_courses(raw_courses)
    /\ norm_pc' = "normalise"
    /\ UNCHANGED <<raw_courses, raw_prereqs, courses_clean, valid_codes,
                   prereqs_clean, cleaned_again>>
    /\ UNCHANGED <<cycleVars, valVars, biasVars, pipeVars, auditVars, loadVars, txnVars, alertVars, pdfVars>>

\* preprocess_courses, lines 42-83: strip, case, de-duplicate, filter, return
NormaliseCourses ==
    /\ norm_pc = "normalise"
    /\ courses_clean' = NormaliseAndFilter(df)
    /\ norm_pc' = "codes"
    /\ UNCHANGED <<raw_courses, raw_prereqs, df, valid_codes, prereqs_clean, cleaned_again>>
    /\ UNCHANGED <<cycleVars, valVars, biasVars, pipeVars, auditVars, loadVars, txnVars, alertVars, pdfVars>>

\* preprocess_data, line 127.  raw["courses"] and the local df of
\* preprocess_courses are not read after this line and are dropped here.
ValidCodes ==
    /\ norm_pc = "codes"
    /\ valid_codes' = CodesOf(courses_clean)
    /\ raw_courses' = <<>>
    /\ df' = <<>>
    /\ norm_pc' = "prereqs"
    /\ UNCHANGED <<raw_prereqs, courses_clean, prereqs_clean, cleaned_again>>
    /\ UNCHANGED <<cycleVars, valVars, biasVars, pipeVars, auditVars, loadVars, txnVars, alertVars, pdfVars>>

\* preprocess_data, lines 128-133: the prerequisites frame of the raw input
\* is cleaned against valid_codes
PreprocessPrerequisites ==
    /\ norm_pc = "prereqs"
    /\ \E rp \in SeqsUpTo(RawPrereqRows, MaxPrereqRows) :
         /\ raw_prereqs' = rp
         /\ prereqs_clean' = preprocess_prerequisites(rp, valid_codes)
    /\ norm_pc' = "done"
    /\ UNCHANGED <<raw_courses, df, courses_clean, valid_codes, cleaned_again>>
    /\ UNCHANGED <<cycleVars, valVars, biasVars, pipeVars, auditVars, loadVars, txnVars, alertVars, pdfVars>>

\* preprocess_data called on the dict it returned
PreprocessAgain ==
    /\ norm_pc = "done"
    /\ cleaned_again' =
         preprocess_data([courses |-> courses_clean, prerequisites |-> prereqs_clean])
    /\ norm_pc' = "done2"
    /\ UNCHANGED <<raw_courses, raw_prereqs, df, courses_clean, valid_codes, prereqs_clean>>
    /\ UNCHANGED <<cycleVars, valVars, biasVars, pipeVars, auditVars, loadVars, txnVars, alertVars, pdfVars>>

SpecNorm == InitNorm /\ [][
    \/ DropNulls
    \/ NormaliseCourses
    \/ ValidCodes
    \/ PreprocessPrerequisites
    \/ PreprocessAgain
  ]_vars

(***************************************************************************)
(* validate_courses and validate_prerequisites.  A frame is its rows and   *)
(* its set of columns; reading a column the frame does not have raises     *)
(* KeyError, and the violations collected so far are lost with it.         *)
(***************************************************************************)
CourseColumns == <<"course_code", "course_name", "credits", "program_code", "course_type">>
PrereqColumns == <<"course_code", "required_course_code">>

ColumnSet(cols) == { cols[i] : i \in 1..Len(cols) }

Violation(check, column, n) == [check |-> check, column |-> column, n |-> n]

Returned(violations) == [raised |-> "none", violations |-> violations]
Raised(exc) == [raised |-> exc, violations |-> <<>>]

\* df[col].isnull().sum()
NullCount(f, col) ==
    Cardinality({ i \in 1..Len(f) :
                    IF col = "credits" THEN IsNullNum(f[i][col]) ELSE IsNullStr(f[i][col]) })

\* the no_nulls violations of the columns cols[i..] that the frame has
RECURSIVE NoNullViolations(_, _, _, _)
NoNullViolations(f, columns, cols, i) ==
    IF i > Len(cols) THEN <<>>
    ELSE (IF cols[i] \in columns /\ NullCount(f, cols[i]) > 0
          THEN <<Violation("no_nulls", cols[i], NullCount(f, cols[i]))>>
          ELSE <<>>) \o NoNullViolations(f, columns, cols, i + 1)

\* missing_cols = required_cols - set(df.columns)
RequiredColumnsViolation(columns, cols) ==
    IF ColumnSet(cols) \ columns # {}
    THEN <<Violation("required_columns", "-", Cardinality(ColumnSet(cols) \ columns))>>
    ELSE <<>>

\* df["course_code"].duplicated().sum(): a missing code equals a missing code
DuplicatedCodes(f) ==
    Cardinality({ i \in 1..Len(f) : \E j \in 1..(i - 1) : f[j].course_code = f[i].course_code })

UniqueCodeViolation(f) ==
    IF DuplicatedCodes(f) > 0
    THEN <<Violation("unique_course_code", "-", DuplicatedCodes(f))>> ELSE <<>>

\* invalid = df[~df["program_code"].isin(VALID_PROGRAM_CODES)]
ProgramCodeViolation(f) ==
    LET invalid == { i \in 1..Len(f) : f[i].program_code \notin VALID_PROGRAM_CODES }
    IN  IF invalid # {}
        THEN <<Violation("valid_program_code", "-", Cardinality(invalid))>> ELSE <<>>

\* invalid = df[~df["course_type"].isin(VALID_COURSE_TYPES)]
CourseTypeViolation(f) ==
    LET invalid == { i \in 1..Len(f) : f[i].course_type \notin VALID_COURSE_TYPES }
    IN  IF invalid # {}
        THEN <<Violation("valid_course_type", "-", Cardinality(invalid))>> ELSE <<>>

\* only negative credits reported
CreditsViolationNegativeOnly(f) ==
    IF \E i \in 1..Len(f) : ~IsNullNum(f[i].credits) /\ f[i].credits < 0
    THEN <<Violation("positive_credits", "-", 0)>> ELSE <<>>

\* (df["credits"] <= 0).any(): a missing value compares false
CreditsViolation(f) ==
    IF \E i \in 1..Len(f) : ~IsNullNum(f[i].credits) /\ f[i].credits <= 0
    THEN <<Violation("positive_credits", "-", 0)>> ELSE <<>>

\* the columns validate_courses reads unguarded, lines 49-70
CoursesReadUnguarded == {"course_code", "program_code", "course_type", "credits"}

FirstViolationOnly(f, columns) ==
    LET all == RequiredColumnsViolation(columns, CourseColumns)
               \o NoNullViolations(f, columns, CourseColumns, 1)
               \o UniqueCodeViolation(f)
               \o ProgramCodeViolation(f)
               \o CourseTypeViolation(f)
               \o CreditsViolation(f)
    IN  IF ~(CoursesReadUnguarded \subseteq columns) THEN Raised("KeyError")
        ELSE Returned(IF all = <<>> THEN <<>> ELSE <<Head(all)>>)

validate_courses(f, columns) ==
    IF ~(CoursesReadUnguarded \subseteq columns) THEN Raised("KeyError")
    ELSE Returned(RequiredColumnsViolation(columns, CourseColumns)
                  \o NoNullViolations(f, columns, CourseColumns, 1)
                  \o UniqueCodeViolation(f)
                  \o ProgramCodeViolation(f)
                  \o CourseTypeViolation(f)
                  \o CreditsViolation(f))

\* df.duplicated(subset=["course_code", "required_course_code"]).sum()
DuplicatedPairs(f) ==
    Cardinality({ i \in 1..Len(f) : \E j \in 1..(i - 1) : f[j] = f[i] })

UniquePairsViolation(f) ==
    IF DuplicatedPairs(f) > 0
    THEN <<Violation("unique_prereq_pairs", "-", DuplicatedPairs(f))>> ELSE <<>>

\* self_refs = df[df["course_code"] == df["required_course_code"]]: the
\* element-wise comparison is false where a value is missing
SelfReferenceViolation(f) ==
    LET self_refs == { i \in 1..Len(f) :
                         /\ ~IsNullStr(f[i].course_code)
                         /\ ~IsNullStr(f[i].required_course_code)
                         /\ f[i].course_code = f[i].required_course_code }
    IN  IF self_refs # {}
        THEN <<Violation("no_self_reference", "-", Cardinality(self_refs))>> ELSE <<>>

\* only the course_code endpoint looked up
ForeignKeyCourseOnly(f, codes) ==
    IF \E i \in 1..Len(f) : f[i].course_code \notin codes
    THEN <<Violation("valid_fk_references", "-", 0)>> ELSE <<>>

\* orphaned_course.any() or orphaned_req.any()
ForeignKeyViolation(f, codes) ==
    IF \E i \in 1..Len(f) :
          f[i].course_code \notin codes \/ f[i].required_course_code \notin codes
    THEN <<Violation("valid_fk_references", "-", 0)>> ELSE <<>>

\* the remaining checks evaluated after a required_columns violation
validate_prerequisites_no_return(f, columns, codes) ==
    Returned(RequiredColumnsViolation(columns, PrereqColumns)
             \o NoNullViolations(f, columns, PrereqColumns, 1)
             \o UniquePairsViolation(f)
             \o SelfReferenceViolation(f)
             \o ForeignKeyViolation(f, codes))

validate_prerequisites(f, columns, codes) ==
    IF ColumnSet(PrereqColumns) \ columns # {}
    THEN Returned(RequiredColumnsViolation(columns, PrereqColumns))
    ELSE Returned(NoNullViolations(f, columns, PrereqColumns, 1)
                  \o UniquePairsViolation(f)
                  \o SelfReferenceViolation(f)
                  \o ForeignKeyViolation(f, codes))

\* a frame without the columns outside `columns`: their cells are missing
Frame(f, columns, cols) ==
    [ i \in 1..Len(f) |->
        [ c \in DOMAIN f[i] |->
            IF c \in columns THEN f[i][c] ELSE IF c = "credits" THEN NaN ELSE None ] ]

\* the column sets of the frames passed in: all columns, or one missing
ColumnChoices(cols) ==
    { ColumnSet(cols) } \cup { ColumnSet(cols) \ {c} : c \in ColumnSet(cols) }

InitVal ==
    /\ ValIdle
    /\ CycleIdle
    /\ NormIdle
    /\ BiasIdle
    /\ PipeIdle
    /\ AuditIdle
    /\ LoadIdle
    /\ TxnIdle
    /\ AlertIdle
    /\ PdfIdle

\* one call validate_courses(df)
ValidateCourses ==
    /\ v_fn = "none"
    /\ \E f \in SeqsUpTo(RawCourseRows, MaxRows), columns \in ColumnChoices(CourseColumns) :
         /\ v_df' = Frame(f, columns, CourseColumns)
         /\ v_columns' = columns
         /\ v_out' = validate_courses(Frame(f, columns, CourseColumns), columns)
    /\ v_fn' = "validate_courses"
    /\ v_codes' = {}
    /\ UNCHANGED <<cycleVars, normVars, biasVars, pipeVars, auditVars, loadVars, txnVars, alertVars, pdfVars>>

\* one call validate_prerequisites(df, valid_codes)
ValidatePrerequisites ==
    /\ v_fn = "none"
    /\ \E f \in SeqsUpTo(RawPrereqRows, MaxPrereqRows),
          columns \in ColumnChoices(PrereqColumns),
          codes \in SUBSET { <<"C","1">>, <<"C","2">> } :
         /\ v_df' = Frame(f, columns, PrereqColumns)
         /\ v_columns' = columns
         /\ v_codes' = codes
         /\ v_out' = validate_prerequisites(Frame(f, columns, PrereqColumns), columns, codes)
    /\ v_fn' = "validate_prerequisites"
    /\ UNCHANGED <<cycleVars, normVars, biasVars, pipeVars, auditVars, loadVars, txnVars, alertVars, pdfVars>>

SpecVal == InitVal /\ [][ValidateCourses \/ ValidatePrerequisites]_vars

(***************************************************************************)
(* task_bias_detection.  The task reads the cleaned courses and uses them  *)
(* only through value_counts and groupby, so the frame is held as the      *)
(* number of rows per (program_code, credits): b_courses[i] rows have the  *)
(* program and credits of BiasKeys[i].  Percentages and averages are in    *)
(* hundredths, rounded as round(x, 2) rounds.                              *)
(***************************************************************************)
\* expected_programs, iterated in this order
ExpectedPrograms == <<"MS_DAE", "MS_DS", "MS_CS", "MS_DA", "MS_IS">>
CreditValues == <<4, 6, 1>>

BiasKeys ==
    [ i \in 1..(Len(ExpectedPrograms) * Len(CreditValues)) |->
        [ program_code |-> ExpectedPrograms[((i - 1) \div Len(CreditValues)) + 1],
          credits      |-> CreditValues[((i - 1) % Len(CreditValues)) + 1] ] ]

RECURSIVE SeqSum(_)
SeqSum(q) == IF q = <<>> THEN 0 ELSE Head(q) + SeqSum(Tail(q))

\* the position in BiasKeys of program p (a position in ExpectedPrograms) with
\* the j-th credit value
KeyIndex(p, j) == (p - 1) * Len(CreditValues) + j

\* len(courses)
TotalCourses(c) == SeqSum(c)

\* program_counts.get(program, 0)
ProgramCount(c, p) ==
    SeqSum([ j \in 1..Len(CreditValues) |-> c[KeyIndex(p, j)] ])

\* group["credits"].sum()
ProgramCredits(c, p) ==
    SeqSum([ j \in 1..Len(CreditValues) |-> c[KeyIndex(p, j)] * CreditValues[j] ])

\* round(num / den, 0) as Python rounds: to nearest, ties to even
RoundDiv(num, den) ==
    LET q == num \div den
        r == num % den
    IN  IF 2 * r > den \/ (2 * r = den /\ q % 2 = 1) THEN q + 1 ELSE q

LowCoverageThreshold == 1000

\* a threshold that is itself low coverage
LowCoverageInclusive(count, percentage) == percentage <= LowCoverageThreshold

\* if percentage < 10.0
LowCoverage(count, percentage) == percentage < LowCoverageThreshold

\* the flags of one program, lines 271-279
CoverageFlags(program, count, percentage) ==
    (IF LowCoverage(count, percentage)
     THEN << [kind |-> "LOW COVERAGE", program |-> program] >> ELSE <<>>)
    \o (IF count = 0
        THEN << [kind |-> "MISSING PROGRAM", program |-> program] >> ELSE <<>>)

\* bias_report["program_coverage"], lines 262-269
ProgramCoverage(c) ==
    LET total_courses == TotalCourses(c)
    IN  [ p \in 1..Len(ExpectedPrograms) |->
            LET count == ProgramCount(c, p)
            IN  [ program    |-> ExpectedPrograms[p],
                  count      |-> count,
                  \* round((count / total_courses) * 100, 2) if total_courses
                  \* else 0, in hundredths
                  percentage |-> IF total_courses # 0
                                 THEN RoundDiv(count * 10000, total_courses)
                                 ELSE 0 ] ]

\* the coverage flags in the order of the loop over expected_programs
RECURSIVE AllCoverageFlags(_, _)
AllCoverageFlags(coverage, p) ==
    IF p > Len(coverage) THEN <<>>
    ELSE CoverageFlags(coverage[p].program, coverage[p].count, coverage[p].percentage)
         \o AllCoverageFlags(coverage, p + 1)

\* courses.groupby("program_code"): the programs that have a row
RECURSIVE Groups(_, _)
Groups(c, p) ==
    IF p > Len(ExpectedPrograms) THEN <<>>
    ELSE (IF ProgramCount(c, p) > 0 THEN <<p>> ELSE <<>>) \o Groups(c, p + 1)

SetMin(S) == CHOOSE x \in S : \A y \in S : x <= y
SetMax(S) == CHOOSE x \in S : \A y \in S : x >= y

\* bias_report["credit_distribution"], lines 282-288
CreditDistribution(c) ==
    LET g == Groups(c, 1)
        present(p) == { CreditValues[j] :
                          j \in { k \in 1..Len(CreditValues) : c[KeyIndex(p, k)] > 0 } }
    IN  [ i \in 1..Len(g) |->
            [ program     |-> ExpectedPrograms[g[i]],
              avg_credits |-> RoundDiv(ProgramCredits(c, g[i]) * 100,
                                       ProgramCount(c, g[i])),
              min_credits |-> SetMin(present(g[i])),
              max_credits |-> SetMax(present(g[i])) ] ]

CreditImbalanceThreshold == 100

RECURSIVE Pow2(_)
Pow2(n) == IF n = 0 THEN 1 ELSE 2 * Pow2(n - 1)

\* 2^n modulo m
RECURSIVE PowMod2(_, _)
PowMod2(n, m) == IF n = 0 THEN 1 % m ELSE (2 * PowMod2(n - 1, m)) % m

\* avg_credits is a Python float: the double nearest to k/100, k the average
\* in hundredths.  The smallest positive average, 0.01, lies in
\* [2^-7, 2^-6).
MinExponent == -7

\* float(k/100) - k/100, in units of 2^(MinExponent - 52) / 100: a double
\* has 52 fraction bits, so k/100 with 2^e <= k/100 < 2^(e+1) is rounded to
\* the nearest multiple of 2^(e - 52)
FloatError(k) ==
    IF k = 0 THEN 0
    ELSE LET e == CHOOSE x \in MinExponent..2 :
                     /\ 100 * Pow2(x - MinExponent) <= Pow2(-MinExponent) * k
                     /\ Pow2(-MinExponent) * k < 100 * Pow2(x - MinExponent + 1)
             r == (k * PowMod2(52 - e, 100)) % 100
         IN  (IF r < 50 THEN -r ELSE 100 - r) * Pow2(e - MinExponent)

\* (max(avg_values) - min(avg_values)) > 1.0 on doubles: the difference of
\* the two doubles is rounded to the nearest double (ties to even, which is
\* 1.0) and compared with 1.0; half the distance from 1.0 to the next double
\* is 2^-53
FloatDifferenceExceedsOne(hi, lo) ==
    IF hi - lo # CreditImbalanceThreshold
    THEN hi - lo > CreditImbalanceThreshold
    ELSE FloatError(hi) - FloatError(lo) > 100 * Pow2(-MinExponent - 1)

\* lines 290-297
CreditFlags(credit_distribution) ==
    LET avg_values == { credit_distribution[i].avg_credits :
                           i \in 1..Len(credit_distribution) }
    IN  IF avg_values # {} /\ FloatDifferenceExceedsOne(SetMax(avg_values), SetMin(avg_values))
        THEN << [kind |-> "CREDIT IMBALANCE", program |-> "-"] >> ELSE <<>>

\* the report as it stands at line 319; the MetricFrame result is kept only
\* when the fairlearn block raised nothing
BiasReport(c, fairlearn_ok) ==
    LET program_coverage == ProgramCoverage(c)
        credit_distribution == CreditDistribution(c)
    IN  [ program_coverage    |-> program_coverage,
          credit_distribution |-> credit_distribution,
          bias_flags          |-> AllCoverageFlags(program_coverage, 1)
                                    \o CreditFlags(credit_distribution),
          fairlearn_by_group  |-> fairlearn_ok ]

InitBias ==
    /\ b_courses = [ i \in 1..Len(BiasKeys) |-> 0 ]
    /\ bias_report = EmptyReport
    /\ b_saved = FALSE
    /\ b_pc = "read"
    /\ b_fairlearn = "none"
    /\ b_uploaded = FALSE
    /\ CycleIdle
    /\ NormIdle
    /\ ValIdle
    /\ PipeIdle
    /\ AuditIdle
    /\ LoadIdle
    /\ TxnIdle
    /\ AlertIdle
    /\ PdfIdle

\* courses = pd.read_json(CLEAN_COURSES_PATH), line 249: one more row of the
\* cleaned file, of any expected program
ReadCleanedRow ==
    /\ b_pc = "read"
    /\ TotalCourses(b_courses) < MaxCourses
    /\ \E i \in 1..Len(BiasKeys) :
         /\ BiasKeys[i].credits \notin VALID_CREDITS
               => SeqSum([ k \in 1..Len(b_courses) |->
                             IF BiasKeys[k].credits \in VALID_CREDITS
                             THEN 0 ELSE b_courses[k] ]) < MaxUnexpectedCredits
         /\ b_courses' = [b_courses EXCEPT ![i] = @ + 1]
    /\ UNCHANGED <<bias_report, b_saved, b_pc, b_fairlearn, b_uploaded>>
    /\ UNCHANGED <<cycleVars, normVars, valVars, pipeVars, auditVars, loadVars, txnVars, alertVars, pdfVars>>

\* what a call of a task callable raised: nothing, or an exception
NoExc == [exc |-> "none", count |-> 0]
Exc(name, n) == [exc |-> name, count |-> n]

BiasRaiseOnFlags(report, fairlearn_ok, upload_ok) ==
    IF report.bias_flags # <<>> THEN Exc("ValueError", Len(report.bias_flags))
    ELSE IF upload_ok THEN NoExc ELSE Exc("GoogleCloudError", 0)

BiasRaiseOnFairlearn(report, fairlearn_ok, upload_ok) ==
    IF ~fairlearn_ok THEN Exc("Exception", 0)
    ELSE IF upload_ok THEN NoExc ELSE Exc("GoogleCloudError", 0)

\* what task_bias_detection raises, lines 299-343: the fairlearn block catches
\* every exception, the flags only choose the Slack message, the upload of the
\* report may raise
BiasOutcome(report, fairlearn_ok, upload_ok) ==
    IF upload_ok THEN NoExc ELSE Exc("GoogleCloudError", 0)

\* task_bias_detection, lines 251-343: the report is computed and written;
\* the upload to GCS then succeeds or raises; the Slack alert never raises
BiasDetection ==
    /\ b_pc = "read"
    /\ \E fairlearn_ok \in BOOLEAN :
         LET report == BiasReport(b_courses, fairlearn_ok)
         IN  /\ bias_report' = report
             /\ b_fairlearn' = IF fairlearn_ok THEN "ok" ELSE "raised"
             /\ \E upload_ok \in BOOLEAN :
                  /\ b_uploaded' = upload_ok
                  /\ b_pc' = IF BiasOutcome(bias_report', fairlearn_ok, upload_ok) = NoExc
                             THEN "success" ELSE "failed"
    /\ b_saved' = TRUE
    /\ UNCHANGED b_courses
    /\ UNCHANGED <<cycleVars, normVars, valVars, pipeVars, auditVars, loadVars, txnVars, alertVars, pdfVars>>

SpecBias == InitBias /\ [][ReadCleanedRow \/ BiasDetection]_vars

\* a cleaned frame with the courses of two programs only: n rows with credits
\* 4 and odd[j] rows with the j-th other value, for each of the two
InitCredit ==
    /\ \E p, q \in 1..Len(ExpectedPrograms) :
       \E np, nq \in 0..MaxGroupRows :
       \E oddp, oddq \in [2..Len(CreditValues) -> 0..MaxGroupOdd] :
          /\ p < q
          /\ b_courses =
               [ i \in 1..Len(BiasKeys) |->
                   LET prog == ((i - 1) \div Len(CreditValues)) + 1
                       j    == ((i - 1) % Len(CreditValues)) + 1
                   IN  IF prog = p THEN (IF j = 1 THEN np ELSE oddp[j])
                       ELSE IF prog = q THEN (IF j = 1 THEN nq ELSE oddq[j])
                       ELSE 0 ]
    /\ bias_report = EmptyReport
    /\ b_saved = FALSE
    /\ b_pc = "read"
    /\ b_fairlearn = "none"
    /\ b_uploaded = FALSE
    /\ CycleIdle
    /\ NormIdle
    /\ ValIdle
    /\ PipeIdle
    /\ AuditIdle
    /\ LoadIdle
    /\ TxnIdle
    /\ AlertIdle
    /\ PdfIdle

SpecCredit == InitCredit /\ [][BiasDetection]_vars

(***************************************************************************)
(* validate_data and generate_statistics (validate_data.py).               *)
(***************************************************************************)
\* the statistics that the report task reads back
generate_statistics(cleaned) ==
    [ total_courses      |-> Len(cleaned.courses),
      unique_programs    |-> Cardinality({ cleaned.courses[i].program_code :
                                             i \in 1..Len(cleaned.courses) }),
      total_prereq_pairs |-> Len(cleaned.prerequisites),
      courses_with_prereqs |-> Cardinality({ cleaned.prerequisites[i].course_code :
                                               i \in 1..Len(cleaned.prerequisites) }) ]

validate_data_stats_first(cleaned) ==
    LET course_out == validate_courses(cleaned.courses, ColumnSet(CourseColumns))
        prereq_out == validate_prerequisites(cleaned.prerequisites,
                                             ColumnSet(PrereqColumns),
                                             CodesOf(cleaned.courses))
        all_violations == course_out.violations \o prereq_out.violations
    IN  [ raised |-> IF all_violations # <<>> THEN "ValueError" ELSE "none",
          count  |-> Len(all_violations),
          stats  |-> << generate_statistics(cleaned) >> ]

\* the raw files of a run
PipeCodes == { <<"C","1">>, <<"C","2">> }

PipeCourseRows ==
    { r \in RawCourseRows :
        /\ r = WellFormed(r.course_code) \/ r = [WellFormed(r.course_code) EXCEPT !.credits = 0]
        /\ r.course_code \in RawCodes
        /\ r.credits = 0 => r.course_code \in PipeCodes }

PipePrereqRows ==
    { r \in RawPrereqRows : r.course_code \in PipeCodes /\ r.required_course_code \in PipeCodes }

\* validate_data(cleaned), lines 157-167, on frames that may lack a column:
\* the exception raised and the violation count its message carries
validate_data_frames(cleaned, course_columns, prereq_columns) ==
    LET courses == Frame(cleaned.courses, course_columns, CourseColumns)
        prereqs == Frame(cleaned.prerequisites, prereq_columns, PrereqColumns)
        course_out == validate_courses(courses, course_columns)
        prereq_out == validate_prerequisites(prereqs, prereq_columns, CodesOf(courses))
        all_violations == course_out.violations \o prereq_out.violations
    IN  IF course_out.raised # "none"
        THEN [ raised |-> course_out.raised, count |-> 0 ]
        ELSE IF all_violations # <<>>
        THEN [ raised |-> "ValueError", count |-> Len(all_violations) ]
        ELSE [ raised |-> "none", count |-> 0 ]

\* one call validate_data(cleaned) on frames of the raw rows of a run
ValidateData ==
    /\ v_fn = "none"
    /\ \E courses \in SeqsUpTo(PipeCourseRows, MaxRows),
          prereqs \in SeqsUpTo(PipePrereqRows, MaxPrereqRows),
          course_columns \in ColumnChoices(CourseColumns),
          prereq_columns \in ColumnChoices(PrereqColumns) :
         /\ v_df' = [ courses       |-> Frame(courses, course_columns, CourseColumns),
                      prerequisites |-> Frame(prereqs, prereq_columns, PrereqColumns) ]
         /\ v_columns' = [ courses |-> course_columns, prerequisites |-> prereq_columns ]
         /\ v_codes' = CodesOf(Frame(courses, course_columns, CourseColumns))
         /\ v_out' = validate_data_frames([courses |-> courses, prerequisites |-> prereqs],
                                          course_columns, prereq_columns)
    /\ v_fn' = "validate_data"
    /\ UNCHANGED <<cycleVars, normVars, biasVars, pipeVars, auditVars, loadVars, txnVars, alertVars, pdfVars>>

SpecValData == InitVal /\ [][ValidatePrerequisites \/ ValidateData]_vars

\* validate_data(cleaned), both frames with all their columns: the exception
\* raised, the violation count its message carries, and stats_report.json when
\* the call wrote it
validate_data(cleaned) ==
    LET course_out == validate_courses(cleaned.courses, ColumnSet(CourseColumns))
        \* valid_codes = set(cleaned["courses"]["course_code"])
        prereq_out == validate_prerequisites(cleaned.prerequisites,
                                             ColumnSet(PrereqColumns),
                                             CodesOf(cleaned.courses))
        all_violations == course_out.violations \o prereq_out.violations
    IN  IF course_out.raised # "none"
        THEN [ raised |-> course_out.raised, count |-> 0, stats |-> <<>> ]
        ELSE IF all_violations # <<>>
        THEN [ raised |-> "ValueError", count |-> Len(all_violations), stats |-> <<>> ]
        ELSE [ raised |-> "none", count |-> 0,
               stats  |-> << generate_statistics(cleaned) >> ]

(***************************************************************************)
(* The DAG courseweave_data_pipeline (pipeline_dag.py): eight              *)
(* PythonOperator tasks in one chain, each with the default trigger rule   *)
(* (all upstream tasks succeeded) and the default_args retries.            *)
(***************************************************************************)
TaskIds ==
    << "acquire_data", "preprocess_data", "validate_data", "detect_anomalies",
       "bias_detection", "dvc_versioning", "load_data", "pipeline_report" >>

TaskSet == { TaskIds[i] : i \in 1..Len(TaskIds) }

Position(t) == CHOOSE i \in 1..Len(TaskIds) : TaskIds[i] = t

\* a >> b: the task upstream of t in the chain
Upstream(t) == TaskIds[Position(t) - 1]

retries == 2

\* the scheduler runs a task whose upstream task succeeded, for the first
\* time or again after a failed try
Runnable(t) ==
    /\ p_ti[t] \in {"none", "up_for_retry"}
    /\ Position(t) > 1 => p_ti[Upstream(t)] = "success"

\* the end of one try of task t: exc is what the callable raised
Finish(t, exc) ==
    /\ p_ti' = [p_ti EXCEPT ![t] = IF exc.exc = "none" THEN "success"
                                   ELSE IF p_try[t] < retries THEN "up_for_retry"
                                   ELSE "failed"]
    /\ p_try' = [p_try EXCEPT ![t] = IF exc.exc = "none" THEN 0 ELSE @ + 1]
    /\ p_exc' = [p_exc EXCEPT ![t] = exc]

RECURSIVE Join(_)
Join(q) == IF q = <<>> THEN "" ELSE Head(q) \o Join(Tail(q))

\* the number of rows an anomaly query returns from the database
AnomalyCounts == 0..1

InitPipe ==
    /\ p_raw = <<>>
    /\ p_cleaned = <<>>
    /\ p_ti = [ t \in TaskSet |-> "none" ]
    /\ p_try = [ t \in TaskSet |-> 0 ]
    /\ p_exc = [ t \in TaskSet |-> NoExc ]
    /\ p_stats = <<>>
    /\ p_committed = {}
    /\ p_report = <<>>
    /\ p_db \in [missing_prerequisites : AnomalyCounts, circular_prerequisites : AnomalyCounts]
    /\ p_anomalies = <<>>
    /\ CycleIdle
    /\ NormIdle
    /\ ValIdle
    /\ BiasIdle
    /\ AuditIdle
    /\ LoadIdle
    /\ TxnIdle
    /\ AlertIdle
    /\ PdfIdle

\* task_acquire_data: the download raises, or the raw frames are written
TaskAcquire ==
    /\ Runnable("acquire_data")
    /\ \/ /\ \E courses \in SeqsUpTo(PipeCourseRows, MaxRows),
                prereqs \in SeqsUpTo(PipePrereqRows, MaxPrereqRows) :
                p_raw' = << [courses |-> courses, prerequisites |-> prereqs] >>
          /\ Finish("acquire_data", NoExc)
       \/ /\ UNCHANGED p_raw
          /\ Finish("acquire_data", Exc("Exception", 0))
    /\ UNCHANGED <<p_cleaned, p_stats, p_committed, p_report, p_db, p_anomalies>>
    /\ UNCHANGED <<cycleVars, normVars, valVars, biasVars, auditVars, loadVars, txnVars, alertVars, pdfVars>>

\* task_preprocess_data: cleaned = preprocess_data(raw), written to the
\* cleaned files
TaskPreprocess ==
    /\ Runnable("preprocess_data")
    /\ p_cleaned' = << preprocess_data(p_raw[1]) >>
    /\ Finish("preprocess_data", NoExc)
    /\ UNCHANGED <<p_raw, p_stats, p_committed, p_report, p_db, p_anomalies>>
    /\ UNCHANGED <<cycleVars, normVars, valVars, biasVars, auditVars, loadVars, txnVars, alertVars, pdfVars>>

\* task_validate_data: validate_data raises and the task re-raises, or the
\* stats report is written and then uploaded
TaskValidate ==
    /\ Runnable("validate_data")
    /\ LET out == validate_data(p_cleaned[1])
       IN  /\ p_stats' = IF out.stats # <<>> THEN out.stats ELSE p_stats
           /\ IF out.raised # "none"
              THEN Finish("validate_data", Exc(out.raised, out.count))
              ELSE \E upload_ok \in BOOLEAN :
                      Finish("validate_data",
                             IF upload_ok THEN NoExc ELSE Exc("Exception", 0))
    /\ UNCHANGED <<p_raw, p_cleaned, p_committed, p_report, p_db, p_anomalies>>
    /\ UNCHANGED <<cycleVars, normVars, valVars, biasVars, auditVars, loadVars, txnVars, alertVars, pdfVars>>

AnomalyAlertOnly(results) == NoExc

\* task_detect_anomalies, lines 218-233: raises when a query returned a row
AnomalyOutcome(results) ==
    LET total_anomalies == results.missing_prerequisites + results.circular_prerequisites
    IN  IF total_anomalies > 0 THEN Exc("ValueError", total_anomalies) ELSE NoExc

\* task_detect_anomalies: the connection to the database fails, or
\* detect_anomalies() returns the rows of the two queries
TaskDetectAnomalies ==
    /\ Runnable("detect_anomalies")
    /\ \/ /\ p_anomalies' = << p_db >>
          /\ Finish("detect_anomalies", AnomalyOutcome(p_db))
       \/ /\ UNCHANGED p_anomalies
          /\ Finish("detect_anomalies", Exc("OperationalError", 0))
    /\ UNCHANGED <<p_raw, p_cleaned, p_stats, p_committed, p_report, p_db>>
    /\ UNCHANGED <<cycleVars, normVars, valVars, biasVars, auditVars, loadVars, txnVars, alertVars, pdfVars>>

\* task_bias_detection on the cleaned courses of the run
TaskBiasDetection ==
    /\ Runnable("bias_detection")
    \* the cleaned courses as the task groups them: rows per (program_code, credits)
    /\ b_courses' =
         LET courses == p_cleaned[1].courses
         IN  [ i \in 1..Len(BiasKeys) |->
                 Cardinality({ k \in 1..Len(courses) :
                                 /\ Join(courses[k].program_code) = BiasKeys[i].program_code
                                 /\ courses[k].credits = BiasKeys[i].credits }) ]
    /\ \E fairlearn_ok \in BOOLEAN :
         /\ bias_report' = BiasReport(b_courses', fairlearn_ok)
         /\ b_fairlearn' = IF fairlearn_ok THEN "ok" ELSE "raised"
         /\ \E upload_ok \in BOOLEAN :
              /\ b_uploaded' = upload_ok
              /\ Finish("bias_detection", BiasOutcome(bias_report', fairlearn_ok, upload_ok))
    /\ b_saved' = TRUE
    /\ UNCHANGED <<b_pc, p_raw, p_cleaned, p_stats, p_committed, p_report, p_db, p_anomalies>>
    /\ UNCHANGED <<cycleVars, normVars, valVars, auditVars, loadVars, txnVars, alertVars, pdfVars>>

\* task_dvc_versioning: dvc push fails and the task raises, or it does not
TaskDvcVersioning ==
    /\ Runnable("dvc_versioning")
    /\ \E push_ok \in BOOLEAN :
         Finish("dvc_versioning", IF push_ok THEN NoExc ELSE Exc("RuntimeError", 0))
    /\ UNCHANGED <<p_raw, p_cleaned, p_stats, p_committed, p_report, p_db, p_anomalies>>
    /\ UNCHANGED <<cycleVars, normVars, valVars, biasVars, auditVars, loadVars, txnVars, alertVars, pdfVars>>

\* task_load_data: load_courses commits or rolls back and raises, then
\* load_prerequisites does
TaskLoad ==
    /\ Runnable("load_data")
    /\ \E courses_ok \in BOOLEAN, prereqs_ok \in BOOLEAN :
         /\ p_committed' = p_committed
                             \cup (IF courses_ok THEN {"courses"} ELSE {})
                             \cup (IF courses_ok /\ prereqs_ok THEN {"prerequisites"} ELSE {})
         /\ Finish("load_data",
                   IF courses_ok /\ prereqs_ok THEN NoExc ELSE Exc("Exception", 0))
    /\ UNCHANGED <<p_raw, p_cleaned, p_stats, p_report, p_db, p_anomalies>>
    /\ UNCHANGED <<cycleVars, normVars, valVars, biasVars, auditVars, loadVars, txnVars, alertVars, pdfVars>>

\* task_pipeline_report: the report is written from the two report files,
\* then uploaded
TaskPipelineReport ==
    /\ Runnable("pipeline_report")
    /\ p_report' = << [ status      |-> "SUCCESS",
                        data_stats  |-> p_stats,
                        flags_count |-> IF b_saved THEN Len(bias_report.bias_flags) ELSE 0 ] >>
    /\ \E upload_ok \in BOOLEAN :
         Finish("pipeline_report", IF upload_ok THEN NoExc ELSE Exc("Exception", 0))
    /\ UNCHANGED <<p_raw, p_cleaned, p_stats, p_committed, p_db, p_anomalies>>
    /\ UNCHANGED <<cycleVars, normVars, valVars, biasVars, auditVars, loadVars, txnVars, alertVars, pdfVars>>

\* the scheduler: a task whose upstream task failed, or was not run because
\* of a failure further up, is not run
UpstreamFailed ==
    /\ \E t \in TaskSet :
         /\ Position(t) > 1
         /\ p_ti[t] = "none"
         /\ p_ti[Upstream(t)] \in {"failed", "upstream_failed"}
         /\ p_ti' = [p_ti EXCEPT ![t] = "upstream_failed"]
    /\ UNCHANGED <<p_raw, p_cleaned, p_try, p_exc, p_stats, p_committed, p_report, p_db, p_anomalies>>
    /\ UNCHANGED <<cycleVars, normVars, valVars, biasVars, auditVars, loadVars, txnVars, alertVars, pdfVars>>

SpecPipe == InitPipe /\ [][
    \/ TaskAcquire
    \/ TaskPreprocess
    \/ TaskValidate
    \/ TaskDetectAnomalies
    \/ TaskBiasDetection
    \/ TaskDvcVersioning
    \/ TaskLoad
    \/ TaskPipelineReport
    \/ UpstreamFailed
  ]_vars

(***************************************************************************)
(* detect_missing_prerequisites (detect_anomalies.py): the join of         *)
(* student_courses, students and prerequisites, filtered by NOT EXISTS.    *)
(* students.id is the key of students and student_courses.student_id       *)
(* refers to it; a student has one email and an email one student.         *)
(***************************************************************************)
StudentIds == {1, 2}
AuditCodes == {"A", "B", "C"}

SubsetsUpTo(S, n) == { T \in SUBSET S : Cardinality(T) <= n }

NotExistsAnyStudent(sc, c, p) ==
    ~ \E sc2 \in sc : sc2[2] = p[2]

\* NOT EXISTS (SELECT 1 FROM student_courses sc2 WHERE sc2.student_id = sc.student_id
\*             AND sc2.course_code = p.required_course_code)
NotExistsCompletion(sc, c, p) ==
    ~ \E sc2 \in sc : sc2[1] = c[1] /\ sc2[2] = p[2]

\* SELECT s.email, sc.course_code AS enrolled_course, p.required_course_code AS missing_prereq
SelectedRow(st, c, p) ==
    [ email |-> st[c[1]], enrolled_course |-> c[2], missing_prereq |-> p[2] ]

\* the rows the query returns, each with the number of times it is returned
detect_missing_prerequisites(sc, st, pr) ==
    LET \* FROM student_courses sc JOIN students s ON sc.student_id = s.id
        \*                         JOIN prerequisites p ON sc.course_code = p.course_code
        joined == { j \in sc \X pr : j[1][1] \in DOMAIN st /\ j[1][2] = j[2][1] }
        kept == { j \in joined : NotExistsCompletion(sc, j[1], j[2]) }
        rows == { SelectedRow(st, j[1], j[2]) : j \in kept }
    IN  [ r \in rows |-> Cardinality({ j \in kept : SelectedRow(st, j[1], j[2]) = r }) ]

InitAudit ==
    /\ students \in { f \in [StudentIds -> {"a@x", "b@x"}] : \A a, b \in StudentIds : f[a] = f[b] => a = b }
    /\ student_courses \in SubsetsUpTo(StudentIds \X AuditCodes, MaxCompletions)
    /\ a_prereqs \in SubsetsUpTo(AuditCodes \X AuditCodes, MaxAuditEdges)
    /\ missing_rows = <<>>
    /\ a_pc = "query"
    /\ CycleIdle
    /\ NormIdle
    /\ ValIdle
    /\ BiasIdle
    /\ PipeIdle
    /\ LoadIdle
    /\ TxnIdle
    /\ AlertIdle
    /\ PdfIdle

\* cur.execute(query); rows = cur.fetchall(); return rows
MissingPrerequisitesQuery ==
    /\ a_pc = "query"
    /\ missing_rows' = detect_missing_prerequisites(student_courses, students, a_prereqs)
    /\ a_pc' = "done"
    /\ UNCHANGED <<students, student_courses, a_prereqs>>
    /\ UNCHANGED <<cycleVars, normVars, valVars, biasVars, pipeVars, loadVars, txnVars, alertVars, pdfVars>>

SpecAudit == InitAudit /\ [][MissingPrerequisitesQuery]_vars

(***************************************************************************)
(* load_data (load_data.py): load_courses, then load_prerequisites, each   *)
(* on a connection of its own, committed when every row is inserted and    *)
(* rolled back when a statement raises.  course_code is the key of         *)
(* courses and (course_code, required_course_code) the key of              *)
(* prerequisites, as the ON CONFLICT clauses name them.                    *)
(***************************************************************************)
LoadRow(code, name) == [WellFormed(code) EXCEPT !.course_name = name]

\* the loop of load_courses over df.iterrows() from row i on:
\* INSERT ... ON CONFLICT (course_code) DO NOTHING; inserted += cur.rowcount
RECURSIVE InsertCourses(_, _, _)
InsertCourses(table, f, i) ==
    IF i > Len(f) THEN [table |-> table, inserted |-> 0]
    ELSE LET conflict == \E r \in table : r.course_code = f[i].course_code
             rest == InsertCourses(IF conflict THEN table ELSE table \cup {f[i]}, f, i + 1)
         IN  [table |-> rest.table,
              inserted |-> rest.inserted + (IF conflict THEN 0 ELSE 1)]

\* the loop of load_prerequisites:
\* INSERT ... ON CONFLICT (course_code, required_course_code) DO NOTHING
RECURSIVE InsertPrerequisites(_, _, _)
InsertPrerequisites(table, f, i) ==
    IF i > Len(f) THEN [table |-> table, inserted |-> 0]
    ELSE LET pair == <<f[i].course_code, f[i].required_course_code>>
             conflict == pair \in table
             rest == InsertPrerequisites(table \cup {pair}, f, i + 1)
         IN  [table |-> rest.table,
              inserted |-> rest.inserted + (IF conflict THEN 0 ELSE 1)]

\* every statement counted, conflict or not
load_courses_count_rows(table, df_) ==
    [table |-> InsertCourses(table, df_, 1).table, inserted |-> Len(df_)]

\* load_courses(df): the table after the commit and the count returned
load_courses(table, df_) == InsertCourses(table, df_, 1)

\* load_prerequisites(df)
load_prerequisites(table, df_) == InsertPrerequisites(table, df_, 1)

InitLoad ==
    \* the tables as earlier runs left them
    /\ \E db \in
         { [courses |-> {}, prerequisites |-> {}],
           [courses |-> { LoadRow(<<"C","1">>, <<"m">>) }, prerequisites |-> {}],
           [courses |-> { LoadRow(<<"C","1">>, <<"n">>), LoadRow(<<"C","2">>, <<"n">>) },
            prerequisites |-> { <<<<"C","2">>, <<"C","1">>>> }] } :
         /\ db_courses = db.courses
         /\ db_prereqs = db.prerequisites
    /\ l_cleaned \in
         { c \in [ courses : SeqsUpTo({ LoadRow(<<"C","1">>, <<"n">>),
                                        LoadRow(<<"C","1">>, <<"m">>),
                                        LoadRow(<<"C","2">>, <<"n">>) }, MaxLoadRows),
                   prerequisites : SeqsUpTo(
                      { [course_code |-> <<"C","2">>, required_course_code |-> <<"C","1">>],
                        [course_code |-> <<"C","1">>, required_course_code |-> <<"C","2">>] },
                      MaxLoadRows) ] :
             \A i \in 1..Len(c.prerequisites) :
                {c.prerequisites[i].course_code, c.prerequisites[i].required_course_code}
                   \subseteq CodesOf(c.courses) }
    /\ l_run = 1
    /\ l_pc = "courses"
    /\ l_inserted = 0
    /\ l_log = <<>>
    /\ CycleIdle
    /\ NormIdle
    /\ ValIdle
    /\ BiasIdle
    /\ PipeIdle
    /\ AuditIdle
    /\ TxnIdle
    /\ AlertIdle
    /\ PdfIdle

\* load_courses(cleaned["courses"]): every row inserted and committed, or a
\* statement (or the connection) raises, the transaction is rolled back and
\* load_data raises
LoadCourses ==
    /\ l_pc = "courses"
    /\ \/ LET done == load_courses(db_courses, l_cleaned.courses)
          IN  /\ db_courses' = done.table
              /\ l_inserted' = done.inserted
              /\ l_pc' = "prerequisites"
              /\ UNCHANGED l_log
       \/ /\ UNCHANGED <<db_courses, l_inserted>>
          /\ l_pc' = "raised"
          /\ l_log' = Append(l_log, [ outcome |-> "raised",
                                      counts |-> <<>>,
                                      courses |-> db_courses,
                                      prerequisites |-> db_prereqs ])
    /\ UNCHANGED <<db_prereqs, l_cleaned, l_run>>
    /\ UNCHANGED <<cycleVars, normVars, valVars, biasVars, pipeVars, auditVars, txnVars, alertVars, pdfVars>>

\* load_prerequisites(cleaned["prerequisites"]), then load_data returns the
\* two counts
LoadPrerequisites ==
    /\ l_pc = "prerequisites"
    /\ \/ LET done == load_prerequisites(db_prereqs, l_cleaned.prerequisites)
          IN  /\ db_prereqs' = done.table
              /\ l_pc' = "returned"
              /\ l_log' = Append(l_log, [ outcome |-> "returned",
                                          counts |-> [ courses_inserted |-> l_inserted,
                                                       prerequisites_inserted |-> done.inserted ],
                                          courses |-> db_courses,
                                          prerequisites |-> done.table ])
       \/ /\ UNCHANGED db_prereqs
          /\ l_pc' = "raised"
          /\ l_log' = Append(l_log, [ outcome |-> "raised",
                                      counts |-> <<>>,
                                      courses |-> db_courses,
                                      prerequisites |-> db_prereqs ])
    /\ UNCHANGED <<db_courses, l_cleaned, l_run, l_inserted>>
    /\ UNCHANGED <<cycleVars, normVars, valVars, biasVars, pipeVars, auditVars, txnVars, alertVars, pdfVars>>

\* load_data is called again with the same frames
LoadAgain ==
    /\ l_pc \in {"returned", "raised"}
    /\ l_run < MaxLoads
    /\ l_run' = l_run + 1
    /\ l_pc' = "courses"
    /\ l_inserted' = 0
    /\ UNCHANGED <<db_courses, db_prereqs, l_cleaned, l_log>>
    /\ UNCHANGED <<cycleVars, normVars, valVars, biasVars, pipeVars, auditVars, txnVars, alertVars, pdfVars>>

SpecLoad == InitLoad /\ [][LoadCourses \/ LoadPrerequisites \/ LoadAgain]_vars

(***************************************************************************)
(* The connection and transaction discipline shared by load_courses,       *)
(* load_prerequisites (load_data.py) and detect_missing_prerequisites,     *)
(* detect_circular_prerequisites (detect_anomalies.py): get_connection()   *)
(* before the try, the statements in the try, commit after the loop and    *)
(* rollback in the except clause (the loaders only), conn.close() in the   *)
(* finally clause.  Rows are counted: t_executed statements have run in    *)
(* the call, t_persisted rows of the call are committed.                   *)
(***************************************************************************)
LoadFns == {"load_courses", "load_prerequisites"}

\* before the first call of any function: every part holds its idle values
InitIdle ==
    /\ CycleIdle
    /\ NormIdle
    /\ ValIdle
    /\ BiasIdle
    /\ PipeIdle
    /\ AuditIdle
    /\ LoadIdle
    /\ TxnIdle
    /\ AlertIdle
    /\ PdfIdle

\* a caller calls one of the four functions: the loaders with a frame of
\* t_rows rows, the detectors with their one query
TxnCall ==
    /\ t_pc \in {"idle", "returned", "raised"}
    /\ t_calls < MaxTxnCalls
    /\ \E fn \in LoadFns \cup {"detect_missing_prerequisites", "detect_circular_prerequisites"},
          n \in 0..MaxTxnRows :
         /\ fn \notin LoadFns => n = 1
         /\ t_fn' = fn
         /\ t_rows' = n
    /\ t_pc' = "connect"
    /\ t_calls' = t_calls + 1
    /\ t_executed' = 0
    /\ t_persisted' = 0
    /\ t_exc' = "none"
    /\ UNCHANGED t_open
    /\ UNCHANGED <<cycleVars, normVars, valVars, biasVars, pipeVars, auditVars, loadVars, alertVars, pdfVars>>

\* conn = get_connection(), before the try: psycopg2.connect returns a
\* connection, or db_config.py logs the OperationalError and re-raises it
GetConnection ==
    /\ t_pc = "connect"
    /\ \/ /\ t_open' = t_open + 1
          /\ t_pc' = "execute"
          /\ UNCHANGED t_exc
       \/ /\ t_exc' = "OperationalError"
          /\ t_pc' = "raised"
          /\ UNCHANGED t_open
    /\ UNCHANGED <<t_fn, t_rows, t_executed, t_persisted, t_calls>>
    /\ UNCHANGED <<cycleVars, normVars, valVars, biasVars, pipeVars, auditVars, loadVars, alertVars, pdfVars>>

\* the statements run on a connection in autocommit mode
ExecuteAutocommit ==
    /\ t_pc = "execute"
    /\ \/ /\ t_executed < t_rows
          /\ t_executed' = t_executed + 1
          /\ t_persisted' = IF t_fn \in LoadFns THEN t_persisted + 1 ELSE t_persisted
          /\ UNCHANGED <<t_pc, t_exc>>
       \/ /\ t_executed = t_rows
          /\ t_pc' = IF t_fn \in LoadFns THEN "commit" ELSE "close"
          /\ UNCHANGED <<t_executed, t_persisted, t_exc>>
       \/ /\ t_exc' = "Error"
          /\ t_pc' = IF t_fn \in LoadFns THEN "rollback" ELSE "close"
          /\ UNCHANGED <<t_executed, t_persisted>>
    /\ UNCHANGED <<t_fn, t_rows, t_open, t_calls>>
    /\ UNCHANGED <<cycleVars, normVars, valVars, biasVars, pipeVars, auditVars, loadVars, alertVars, pdfVars>>

\* the body of the try: conn.cursor(), then cur.execute for the next row (the
\* loaders) or for the query (the detectors).  A statement runs in the open
\* transaction; when one raises the loaders go to their except clause and
\* the detectors to their finally clause; after the last one the loaders
\* commit and the detectors return the rows through the finally clause
Execute ==
    /\ t_pc = "execute"
    /\ \/ /\ t_executed < t_rows
          /\ t_executed' = t_executed + 1
          /\ UNCHANGED <<t_pc, t_exc>>
       \/ /\ t_executed = t_rows
          /\ t_pc' = IF t_fn \in LoadFns THEN "commit" ELSE "close"
          /\ UNCHANGED <<t_executed, t_exc>>
       \/ /\ t_exc' = "Error"
          /\ t_pc' = IF t_fn \in LoadFns THEN "rollback" ELSE "close"
          /\ UNCHANGED t_executed
    /\ UNCHANGED <<t_fn, t_rows, t_open, t_persisted, t_calls>>
    /\ UNCHANGED <<cycleVars, normVars, valVars, biasVars, pipeVars, auditVars, loadVars, alertVars, pdfVars>>

\* conn.commit() after the loop: the executed rows are persisted, or the
\* commit raises inside the try and the except clause runs
Commit ==
    /\ t_pc = "commit"
    /\ \/ /\ t_persisted' = t_executed
          /\ t_pc' = "close"
          /\ UNCHANGED t_exc
       \/ /\ t_exc' = "CommitError"
          /\ t_pc' = "rollback"
          /\ UNCHANGED t_persisted
    /\ UNCHANGED <<t_fn, t_rows, t_open, t_executed, t_calls>>
    /\ UNCHANGED <<cycleVars, normVars, valVars, biasVars, pipeVars, auditVars, loadVars, alertVars, pdfVars>>

\* conn.close() after the except clause instead of in a finally clause
RollbackSkipsFinally ==
    /\ t_pc = "rollback"
    /\ \/ /\ t_pc' = "close"
          /\ UNCHANGED t_exc
       \/ /\ t_exc' = "RollbackError"
          /\ t_pc' = "raised"
    /\ UNCHANGED <<t_fn, t_rows, t_open, t_executed, t_persisted, t_calls>>
    /\ UNCHANGED <<cycleVars, normVars, valVars, biasVars, pipeVars, auditVars, loadVars, alertVars, pdfVars>>

\* except Exception: conn.rollback(), logger.error, raise.  The rollback
\* discards the open transaction and the caught exception is re-raised, or
\* the rollback itself raises; the finally clause runs in both cases
Rollback ==
    /\ t_pc = "rollback"
    /\ \/ UNCHANGED t_exc
       \/ t_exc' = "RollbackError"
    /\ t_pc' = "close"
    /\ UNCHANGED <<t_fn, t_rows, t_open, t_executed, t_persisted, t_calls>>
    /\ UNCHANGED <<cycleVars, normVars, valVars, biasVars, pipeVars, auditVars, loadVars, alertVars, pdfVars>>

\* finally: conn.close().  An open transaction is discarded with the
\* connection; the function then returns, or the pending exception goes on
\* to the caller
Close ==
    /\ t_pc = "close"
    /\ t_open' = t_open - 1
    /\ t_pc' = IF t_exc = "none" THEN "returned" ELSE "raised"
    /\ UNCHANGED <<t_fn, t_rows, t_executed, t_persisted, t_exc, t_calls>>
    /\ UNCHANGED <<cycleVars, normVars, valVars, biasVars, pipeVars, auditVars, loadVars, alertVars, pdfVars>>

SpecTxn == InitIdle /\ [][
    \/ TxnCall
    \/ GetConnection
    \/ Execute
    \/ Commit
    \/ Rollback
    \/ Close
  ]_vars

(***************************************************************************)
(* send_slack_alert (pipeline_dag.py) and the task that calls it: after    *)
(* its work (task_preprocess_data, task_bias_detection, ...) or in the     *)
(* except clause that re-raises what the work raised (task_validate_data,  *)
(* task_dvc_versioning, task_load_data).                                   *)
(***************************************************************************)
\* what requests.post and response.raise_for_status raise
AlertExceptions == {"ConnectionError", "Timeout", "HTTPError"}

\* the handler names one class of the requests library
CatchesHttpErrorOnly(exc) == exc = "HTTPError"

\* the handler is "except Exception", and all of them derive from it
Catches(exc) == exc \in AlertExceptions \cup {"Exception"}

\* a task calls send_slack_alert: os.getenv, and the return after the
\* warning when the variable is unset
SendSlackAlert ==
    /\ s_pc \in {"idle", "done"}
    /\ s_tasks < MaxAlertTasks
    /\ \E body \in {"none", "ValueError", "RuntimeError"}, webhook_url \in {"unset", "set"} :
         /\ s_body' = body
         /\ s_webhook' = webhook_url
         /\ s_pc' = IF webhook_url = "unset" THEN "returned" ELSE "post"
         /\ s_log' = IF webhook_url = "unset" THEN "warning" ELSE "none"
    /\ s_exc' = "none"
    /\ s_posted' = FALSE
    /\ s_outcome' = "none"
    /\ UNCHANGED s_tasks
    /\ UNCHANGED <<cycleVars, normVars, valVars, biasVars, pipeVars, auditVars, loadVars, txnVars, pdfVars>>

\* the try: requests.post and response.raise_for_status.  Both succeed and
\* the success is logged, or one of them raises; the exception goes to the
\* handler when the handler catches it and to the caller otherwise
Post ==
    /\ s_pc = "post"
    /\ s_posted' = TRUE
    /\ \/ /\ s_log' = "info"
          /\ s_pc' = "returned"
          /\ UNCHANGED s_exc
       \/ /\ \E exc \in AlertExceptions :
               /\ s_exc' = exc
               /\ s_pc' = IF Catches(exc) THEN "except" ELSE "raised"
          /\ UNCHANGED s_log
    /\ UNCHANGED <<s_body, s_webhook, s_outcome, s_tasks>>
    /\ UNCHANGED <<cycleVars, normVars, valVars, biasVars, pipeVars, auditVars, loadVars, txnVars, pdfVars>>

\* except Exception as e: logging.error
Except ==
    /\ s_pc = "except"
    /\ s_log' = "error"
    /\ s_pc' = "returned"
    /\ UNCHANGED <<s_body, s_webhook, s_exc, s_posted, s_outcome, s_tasks>>
    /\ UNCHANGED <<cycleVars, normVars, valVars, biasVars, pipeVars, auditVars, loadVars, txnVars, pdfVars>>

\* the task after the call: an exception of send_slack_alert ends it;
\* otherwise the except clause re-raises what the work raised, or the
\* callable returns
TaskEnd ==
    /\ s_pc \in {"returned", "raised"}
    /\ s_outcome' = IF s_pc = "raised" THEN s_exc
                    ELSE IF s_body # "none" THEN s_body
                    ELSE "success"
    /\ s_pc' = "done"
    /\ s_tasks' = s_tasks + 1
    /\ UNCHANGED <<s_body, s_webhook, s_exc, s_posted, s_log>>
    /\ UNCHANGED <<cycleVars, normVars, valVars, biasVars, pipeVars, auditVars, loadVars, txnVars, pdfVars>>

SpecAlert == InitIdle /\ [][SendSlackAlert \/ Post \/ Except \/ TaskEnd]_vars

(***************************************************************************)
(* run_pipeline (pdf-extract.py).  A blob is its name and the checksum of  *)
(* its bytes; names are 1, 2, ... as GCS lists every object once.  Each    *)
(* stage of the loop body either passes or fails; a stage that fails logs  *)
(* the error to GCS, which succeeds or raises out of run_pipeline.         *)
(***************************************************************************)
\* the loop body with every failing stage but the last appending to failed
\* and going on to the next stage
run_stages_without_continue(results, tracker, blob, fault) ==
    LET failed == IF fault \notin {"none", "tracker_update"}
                  THEN [results EXCEPT !.failed = Append(@, blob.name)]
                  ELSE results
    IN  [ results |-> [failed EXCEPT !.success = Append(@, [source_file |-> blob.name])],
          tracker |-> tracker ]

\* the loop body for one blob, lines 215-270: the stage named by fault fails
\* ("none": no stage does).  What it leaves in pipeline_results and in the
\* tracker file
run_stages(results, tracker, blob, fault) ==
    IF fault = "gcs_download"
    THEN [ results |-> [results EXCEPT !.failed = Append(@, blob.name)],
           tracker |-> tracker ]
    ELSE IF <<blob.name, blob.checksum>> \in tracker
    THEN [ results |-> [results EXCEPT !.skipped = Append(@, blob.name)],
           tracker |-> tracker ]
    ELSE IF fault \notin {"none", "tracker_update"}
    THEN [ results |-> [results EXCEPT !.failed = Append(@, blob.name)],
           tracker |-> tracker ]
    ELSE [ results |-> [results EXCEPT !.success = Append(@, [source_file |-> blob.name])],
           tracker |-> IF fault = "tracker_update" THEN tracker
                       ELSE { e \in tracker : e[1] # blob.name }
                              \cup {<<blob.name, blob.checksum>>} ]

\* run_pipeline up to the loop: the tracker is loaded and the blobs under the
\* folder are listed, or list_blobs raises, the error is logged and re-raised
RunPipeline ==
    /\ d_pc \in {"idle", "returned", "raised"}
    /\ d_runs < MaxPdfRuns
    /\ d_runs' = d_runs + 1
    /\ d_i' = 0
    /\ d_results' = [success |-> <<>>, failed |-> <<>>, skipped |-> <<>>]
    /\ d_summary' = <<>>
    /\ \/ /\ \E n \in 0..MaxPdfs :
               \E checksums \in [1..n -> {"md5_a", "md5_b"}] :
                  d_blobs' = [ k \in 1..n |-> [name |-> k, checksum |-> checksums[k]] ]
          /\ d_pc' = "loop"
       \/ /\ d_blobs' = <<>>
          /\ d_pc' = "raised"
    /\ UNCHANGED d_tracker
    /\ UNCHANGED <<cycleVars, normVars, valVars, biasVars, pipeVars, auditVars, loadVars, txnVars, alertVars>>

\* one iteration of "for blob in pdf_blobs"; after the last blob the loop ends
ProcessBlob ==
    /\ d_pc = "loop"
    /\ \/ /\ d_i < Len(d_blobs)
          \* the stages of the loop body that can fail; pdf_parsing and
          \* course_code_extraction fail by an exception or by an empty result
          /\ \E fault \in { "none", "gcs_download", "pdf_parsing", "no_content",
                             "course_code_extraction", "no_course_code",
                             "semantic_chunking", "pinecone_upsert", "tracker_update" },
                log_ok \in BOOLEAN :
               LET blob == d_blobs[d_i + 1]
                   out  == run_stages(d_results, d_tracker, blob, fault)
                   \* log_error_to_gcs is called when a stage that is reached fails
                   logs == /\ fault # "none"
                           /\ fault = "gcs_download"
                                 \/ <<blob.name, blob.checksum>> \notin d_tracker
               IN  IF logs /\ ~log_ok
                   THEN /\ d_pc' = "raised"
                        /\ UNCHANGED <<d_i, d_results, d_tracker>>
                   ELSE /\ d_i' = d_i + 1
                        /\ d_results' = out.results
                        /\ d_tracker' = out.tracker
                        /\ UNCHANGED d_pc
       \/ /\ d_i = Len(d_blobs)
          /\ d_pc' = "summary"
          /\ UNCHANGED <<d_i, d_results, d_tracker>>
    /\ UNCHANGED <<d_blobs, d_summary, d_runs>>
    /\ UNCHANGED <<cycleVars, normVars, valVars, biasVars, pipeVars, auditVars, loadVars, txnVars, alertVars>>

\* the summary is built from pipeline_results and uploaded; run_pipeline
\* returns it, or the upload raises
WriteSummary ==
    /\ d_pc = "summary"
    /\ \/ /\ d_summary' = << [ total_pdfs_found |-> Len(d_blobs),
                               successful       |-> Len(d_results.success),
                               skipped          |-> Len(d_results.skipped),
                               failed           |-> Len(d_results.failed),
                               details          |-> d_results ] >>
          /\ d_pc' = "returned"
       \/ /\ d_pc' = "raised"
          /\ UNCHANGED d_summary
    /\ UNCHANGED <<d_tracker, d_blobs, d_i, d_results, d_runs>>
    /\ UNCHANGED <<cycleVars, normVars, valVars, biasVars, pipeVars, auditVars, loadVars, txnVars, alertVars>>

SpecPdf == InitIdle /\ [][RunPipeline \/ ProcessBlob \/ WriteSummary]_vars

(***************************************************************************)
(* The "requires" relation of the table and the edges that lie on a cycle. *)
(***************************************************************************)
RECURSIVE ReachFrom(_, _, _)
ReachFrom(table, seen, n) ==
    LET next == seen \cup { e[2] : e \in { x \in table : x[1] \in seen } }
    IN  IF n = 0 \/ next = seen THEN seen ELSE ReachFrom(table, next, n - 1)

\* the nodes reachable from u by zero or more edges
Reachable(table, u) == ReachFrom(table, {u}, Cardinality(table) + 1)

\* the edge e = u -> v lies on a directed cycle: u is reachable from v
OnCycle(table, e) == e[1] \in Reachable(table, e[2])

\* C1: every edge reported by detect_circular_prerequisites lies on at least
\* one directed cycle of the course_code -> required_course_code relation.
C1_NoFalsePositives ==
    cte_pc = "done" =>
        \A e \in circular_rows : OnCycle(prerequisites, e)

\* C2: every edge that lies on a directed cycle is reported, and an acyclic
\* table yields the empty result.
C2_Complete ==
    cte_pc = "done" =>
        /\ \A e \in prerequisites : OnCycle(prerequisites, e) => e \in circular_rows
        /\ (\A e \in prerequisites : ~OnCycle(prerequisites, e)) => circular_rows = {}

\* a three-cycle 1 -> 2 -> 3 -> 1 whose three edges are all reported
C2_Witness ==
    /\ cte_pc = "done"
    /\ {<<1, 2>>, <<2, 3>>, <<3, 1>>} \subseteq prerequisites
    /\ {<<1, 2>>, <<2, 3>>, <<3, 1>>} \subseteq circular_rows

(***************************************************************************)
(* Properties of the normaliser                                            *)
(***************************************************************************)
\* a raw course row with a missing value in one of the five required fields
AnyNull(r) ==
    \/ r.course_code = None
    \/ r.course_name = None
    \/ r.credits = NaN
    \/ r.program_code = None
    \/ r.course_type = None

\* the code of a raw row as the normaliser compares it: trimmed, upper-cased
TrimUpper(code) == str_upper(str_strip(code))

\* C7: no row with a null required field reaches the string normalisation
\* step; every output row comes from an input row without nulls, and an
\* input row without nulls whose code no other row shares and whose program
\* and type are valid is kept.
C7_NullsDroppedFirst ==
    /\ norm_pc = "normalise" => \A i \in 1..Len(df) : ~AnyNull(df[i])
    /\ norm_pc = "codes" =>
         /\ \A k \in 1..Len(courses_clean) :
              \E i \in 1..Len(raw_courses) :
                 ~AnyNull(raw_courses[i]) /\ courses_clean[k] = NormaliseRow(raw_courses[i])
         /\ \A i \in 1..Len(raw_courses) :
              ( /\ ~AnyNull(raw_courses[i])
                /\ \A j \in 1..Len(raw_courses) :
                     (j # i /\ raw_courses[j].course_code # None)
                        => TrimUpper(raw_courses[j].course_code)
                             # TrimUpper(raw_courses[i].course_code)
                /\ NormaliseRow(raw_courses[i]).program_code \in VALID_PROGRAM_CODES
                /\ NormaliseRow(raw_courses[i]).course_type \in VALID_COURSE_TYPES )
              => \E k \in 1..Len(courses_clean) :
                    courses_clean[k] = NormaliseRow(raw_courses[i])

\* a row with a null course_name was dropped and the valid row after it kept
C7_Witness ==
    /\ norm_pc = "codes"
    /\ Len(raw_courses) = 2
    /\ raw_courses[1].course_name = None
    /\ raw_courses[1].course_code # raw_courses[2].course_code
    /\ Len(courses_clean) = 1
    /\ courses_clean[1] = NormaliseRow(raw_courses[2])

\* no two output rows share a course_code, no two output edges share a pair
UniqueKeys ==
    /\ norm_pc = "codes" =>
         \A i, j \in 1..Len(courses_clean) :
            courses_clean[i].course_code = courses_clean[j].course_code => i = j
    /\ norm_pc = "done" =>
         \A i, j \in 1..Len(prereqs_clean) :
            ( /\ prereqs_clean[i].course_code = prereqs_clean[j].course_code
              /\ prereqs_clean[i].required_course_code = prereqs_clean[j].required_course_code )
            => i = j

\* the first raw row, among those satisfying Counts, that carries the code
FirstIndex(code, Counts(_)) ==
    CHOOSE i \in 1..Len(raw_courses) :
        /\ Counts(raw_courses[i])
        /\ TrimUpper(raw_courses[i].course_code) = code
        /\ \A j \in 1..(i - 1) :
              ~(Counts(raw_courses[j]) /\ TrimUpper(raw_courses[j].course_code) = code)

HasCode(r) == r.course_code # None
NoNull(r)  == ~AnyNull(r)

\* C8 as stated: keys are unique and the row kept for a code is the first
\* row of the input that carries the code.
C8_FirstOfInput ==
    /\ UniqueKeys
    /\ norm_pc = "codes" =>
         \A k \in 1..Len(courses_clean) :
            /\ \E i \in 1..Len(raw_courses) :
                  HasCode(raw_courses[i])
                  /\ TrimUpper(raw_courses[i].course_code) = courses_clean[k].course_code
            /\ courses_clean[k] =
                  NormaliseRow(raw_courses[FirstIndex(courses_clean[k].course_code, HasCode)])

\* C8 amended: keys are unique and the row kept for a code is the first row
\* carrying the code among the input rows without a null required field.
C8_FirstOfNonNull ==
    /\ UniqueKeys
    /\ norm_pc = "codes" =>
         \A k \in 1..Len(courses_clean) :
            /\ \E i \in 1..Len(raw_courses) :
                  NoNull(raw_courses[i])
                  /\ TrimUpper(raw_courses[i].course_code) = courses_clean[k].course_code
            /\ courses_clean[k] =
                  NormaliseRow(raw_courses[FirstIndex(courses_clean[k].course_code, NoNull)])

\* two spellings of one code with different rows: the first is the one kept
C8_Witness ==
    /\ norm_pc = "codes"
    /\ Len(raw_courses) = 2
    /\ NoNull(raw_courses[1]) /\ NoNull(raw_courses[2])
    /\ raw_courses[1].course_code # raw_courses[2].course_code
    /\ TrimUpper(raw_courses[1].course_code) = TrimUpper(raw_courses[2].course_code)
    /\ raw_courses[1].credits # raw_courses[2].credits
    /\ Len(courses_clean) = 1
    /\ courses_clean[1] = NormaliseRow(raw_courses[1])

\* C9: both endpoints of every output edge are course codes of the output
\* Course set of the same call.
C9_ReferentialClosure ==
    norm_pc = "done" =>
        \A k \in 1..Len(prereqs_clean) :
            /\ \E i \in 1..Len(courses_clean) :
                  courses_clean[i].course_code = prereqs_clean[k].course_code
            /\ \E i \in 1..Len(courses_clean) :
                  courses_clean[i].course_code = prereqs_clean[k].required_course_code

\* one edge between known courses kept, one edge with an unknown endpoint removed
C9_Witness ==
    /\ norm_pc = "done"
    /\ Len(courses_clean) = 1
    /\ Len(raw_prereqs) = 2
    /\ raw_prereqs[1].course_code # None /\ raw_prereqs[1].required_course_code # None
    /\ TrimUpper(raw_prereqs[1].required_course_code) \notin CodesOf(courses_clean)
    /\ TrimUpper(raw_prereqs[1].course_code) \in CodesOf(courses_clean)
    /\ Len(prereqs_clean) = 1
    /\ prereqs_clean[1] = NormalisePrereqRow(raw_prereqs[2])

\* C10: preprocess_data applied to its own output returns that output.
C10_Idempotent ==
    norm_pc = "done2" =>
        /\ cleaned_again.courses = courses_clean
        /\ cleaned_again.prerequisites = prereqs_clean

\* a second pass over a non-empty output whose first pass changed and
\* dropped rows
C10_Witness ==
    /\ norm_pc = "done2"
    /\ Len(courses_clean) = 2
    /\ Len(raw_prereqs) = 2
    /\ Len(prereqs_clean) = 1
    /\ prereqs_clean[1] \notin { raw_prereqs[1], raw_prereqs[2] }
    /\ cleaned_again.prerequisites = prereqs_clean

(***************************************************************************)
(* Properties of the schema validator                                      *)
(***************************************************************************)
\* C5: validate_courses and validate_prerequisites return a list of
\* violations for every input, also for a frame that lacks a required
\* column; they never raise.
C5_NeverThrows ==
    v_fn # "none" => v_out.raised = "none"

Checks(out) == { out.violations[i].check : i \in 1..Len(out.violations) }

\* C6: for a Course frame with all required columns, each broken check has
\* its violation in the list of one call.
C6_AllChecksEvaluated ==
    (v_fn = "validate_courses" /\ v_columns = ColumnSet(CourseColumns)) =>
        /\ v_out.raised = "none"
        /\ (\E i \in 1..Len(v_df) : AnyNull(v_df[i])) => "no_nulls" \in Checks(v_out)
        /\ (\E i, j \in 1..Len(v_df) : i # j /\ v_df[i].course_code = v_df[j].course_code)
              => "unique_course_code" \in Checks(v_out)
        /\ (\E i \in 1..Len(v_df) : v_df[i].program_code \notin VALID_PROGRAM_CODES)
              => "valid_program_code" \in Checks(v_out)
        /\ (\E i \in 1..Len(v_df) : v_df[i].course_type \notin VALID_COURSE_TYPES)
              => "valid_course_type" \in Checks(v_out)
        /\ (\E i \in 1..Len(v_df) : v_df[i].credits # NaN /\ v_df[i].credits <= 0)
              => "positive_credits" \in Checks(v_out)

\* one call that returned four different violations
C6_Witness ==
    /\ v_fn = "validate_courses"
    /\ v_columns = ColumnSet(CourseColumns)
    /\ {"no_nulls", "unique_course_code", "valid_program_code", "positive_credits"}
          \subseteq Checks(v_out)

(***************************************************************************)
(* Properties of bias detection                                            *)
(***************************************************************************)
HasFlag(kind, program) ==
    \E i \in 1..Len(bias_report.bias_flags) :
        bias_report.bias_flags[i] = [kind |-> kind, program |-> program]

Coverage(program) ==
    bias_report.program_coverage[
        CHOOSE i \in 1..Len(bias_report.program_coverage) :
            bias_report.program_coverage[i].program = program]

\* C3: in a bias report no expected program has both a LOW COVERAGE and a
\* MISSING PROGRAM flag; LOW COVERAGE is raised only for a program with at
\* least one course and a percentage below 10.0, MISSING PROGRAM only for a
\* program with count 0.
C3_FlagsExclusive ==
    b_saved =>
        \A i \in 1..Len(ExpectedPrograms) :
            LET program == ExpectedPrograms[i] IN
            /\ ~(HasFlag("LOW COVERAGE", program) /\ HasFlag("MISSING PROGRAM", program))
            /\ HasFlag("LOW COVERAGE", program) =>
                  (Coverage(program).count >= 1 /\ Coverage(program).percentage < 1000)
            /\ HasFlag("MISSING PROGRAM", program) => Coverage(program).count = 0

(***************************************************************************)
(* Properties of a pipeline run                                            *)
(***************************************************************************)
\* the violations the two schema checks yield on the cleaned files of the run
SchemaViolations ==
    validate_courses(p_cleaned[1].courses, ColumnSet(CourseColumns)).violations
    \o validate_prerequisites(p_cleaned[1].prerequisites, ColumnSet(PrereqColumns),
                              CodesOf(p_cleaned[1].courses)).violations

\* C4: in a pipeline run whose cleaned data yields at least one schema
\* violation, the validate task never succeeds, every try of it ends with a
\* ValueError carrying the number of violations, no statistics report is
\* written in the run, and the load task is never run and commits nothing.
C4_ValidationHalts ==
    (p_cleaned # <<>> /\ SchemaViolations # <<>>) =>
        /\ p_ti["validate_data"] \in {"none", "up_for_retry", "failed"}
        /\ p_ti["validate_data"] # "none" =>
              p_exc["validate_data"] = Exc("ValueError", Len(SchemaViolations))
        /\ p_stats = <<>>
        /\ p_ti["load_data"] \in {"none", "upstream_failed"}
        /\ p_committed = {}

C4_Witness ==
    /\ p_cleaned # <<>>
    /\ Len(SchemaViolations) >= 2
    /\ p_ti["validate_data"] = "failed"
    /\ p_exc["validate_data"] = Exc("ValueError", Len(SchemaViolations))
    /\ p_ti["load_data"] = "upstream_failed"

(***************************************************************************)
(* Properties of the completion audit                                      *)
(***************************************************************************)
\* the number of copies of row r among the rows returned
Copies(r) == IF r \in DOMAIN missing_rows THEN missing_rows[r] ELSE 0

\* C11: for each completion record (student, enrolled_course) and each
\* prerequisite edge enrolled_course -> required_course, the result has exactly
\* one row when the student has no completion record for required_course and
\* no row when the student has one; it has no other row.
C11_CompletionAudit ==
    a_pc = "done" =>
        /\ \A c \in student_courses, p \in a_prereqs :
              c[2] = p[1] =>
                 Copies([email |-> students[c[1]], enrolled_course |-> c[2],
                         missing_prereq |-> p[2]])
                   = (IF <<c[1], p[2]>> \in student_courses THEN 0 ELSE 1)
        /\ \A r \in DOMAIN missing_rows :
              \E c \in student_courses, p \in a_prereqs :
                 /\ c[2] = p[1]
                 /\ r = [email |-> students[c[1]], enrolled_course |-> c[2],
                         missing_prereq |-> p[2]]

\* two students completed the same course; one of them lacks its prerequisite
C11_Witness ==
    /\ a_pc = "done"
    /\ \E s, t \in StudentIds, p \in a_prereqs :
          /\ s # t
          /\ <<s, p[1]>> \in student_courses /\ <<s, p[2]>> \notin student_courses
          /\ <<t, p[1]>> \in student_courses /\ <<t, p[2]>> \in student_courses
          /\ Cardinality(DOMAIN missing_rows) = 1

\* the tasks downstream of detect_anomalies
AfterAnomalies == {"bias_detection", "dvc_versioning", "load_data", "pipeline_report"}

TotalAnomalies ==
    p_anomalies[1].missing_prerequisites + p_anomalies[1].circular_prerequisites

\* C12: once detect_anomalies() has returned in a run, with at least one
\* missing-prerequisite or circular-prerequisite row the try of the anomaly
\* task ends with a ValueError, the task never succeeds, and bias detection,
\* DVC versioning, load and report are never run and leave nothing behind;
\* with no row the anomaly task has succeeded.
C12_AnomaliesAbort ==
    p_anomalies # <<>> =>
        IF TotalAnomalies > 0
        THEN /\ p_ti["detect_anomalies"] \in {"up_for_retry", "failed"}
             /\ p_exc["detect_anomalies"].exc \in {"ValueError", "OperationalError"}
             /\ \A t \in AfterAnomalies : p_ti[t] \in {"none", "upstream_failed"}
             /\ ~b_saved
             /\ p_committed = {}
             /\ p_report = <<>>
        ELSE p_ti["detect_anomalies"] = "success"

\* a run with one circular row: the anomaly task failed for good after its
\* retries and the four tasks after it were not run
C12_Witness ==
    /\ p_anomalies # <<>>
    /\ p_anomalies[1].circular_prerequisites > 0
    /\ p_ti["detect_anomalies"] = "failed"
    /\ p_exc["detect_anomalies"] = Exc("ValueError", TotalAnomalies)
    /\ \A t \in AfterAnomalies : p_ti[t] = "upstream_failed"

\* C13: in a run in which task_bias_detection was tried, the bias report is
\* written whatever flags it holds; the task fails only when the upload of
\* the report failed, never because of the flags; and once it succeeded, DVC
\* versioning is runnable and neither it, the load nor the report is skipped
\* on account of bias detection.
C13_FlagsSoft ==
    p_try # <<>> /\ b_saved =>
        /\ bias_report.bias_flags
             = AllCoverageFlags(bias_report.program_coverage, 1)
               \o CreditFlags(bias_report.credit_distribution)
        /\ p_ti["bias_detection"] \in {"success", "up_for_retry", "failed"}
        /\ p_ti["bias_detection"] # "success" =>
              (~b_uploaded /\ p_exc["bias_detection"].exc = "GoogleCloudError")
        /\ b_uploaded => p_ti["bias_detection"] = "success"
        /\ p_ti["bias_detection"] = "success" =>
              /\ p_ti["dvc_versioning"] # "upstream_failed"
              /\ p_ti["dvc_versioning"] \in {"none", "up_for_retry"}
                    => Runnable("dvc_versioning")
              /\ p_ti["load_data"] = "upstream_failed"
                    => p_ti["dvc_versioning"] = "failed"
              /\ p_ti["pipeline_report"] = "upstream_failed"
                    => (p_ti["dvc_versioning"] = "failed" \/ p_ti["load_data"] = "failed")

\* a run whose bias report holds flags and which went on to its last task
C13_Witness ==
    /\ p_try # <<>>
    /\ b_saved
    /\ Len(bias_report.bias_flags) >= 4
    /\ p_ti["bias_detection"] = "success"
    /\ p_ti["load_data"] = "success"
    /\ p_ti["pipeline_report"] = "success"

\* C14: when the fairlearn block of task_bias_detection raised, the report is
\* still written, with the coverage of every expected program, the credit
\* distribution of every program that has a course and the flags computed
\* before the block, and without a fairlearn_by_group entry; the exception
\* is not propagated: the call fails only when the upload failed.
C14_FairlearnContained ==
    (b_pc \in {"success", "failed"} /\ b_fairlearn = "raised") =>
        /\ b_saved
        /\ ~bias_report.fairlearn_by_group
        /\ Len(bias_report.program_coverage) = Len(ExpectedPrograms)
        /\ \A p \in 1..Len(ExpectedPrograms) :
              /\ Coverage(ExpectedPrograms[p]).count = ProgramCount(b_courses, p)
              /\ ProgramCount(b_courses, p) = 0
                    => HasFlag("MISSING PROGRAM", ExpectedPrograms[p])
              /\ ProgramCount(b_courses, p) > 0
                    <=> \E i \in 1..Len(bias_report.credit_distribution) :
                           bias_report.credit_distribution[i].program = ExpectedPrograms[p]
        /\ b_uploaded <=> b_pc = "success"

\* a call whose fairlearn block raised and which succeeded, with a flag
C14_Witness ==
    /\ b_pc = "success"
    /\ b_fairlearn = "raised"
    /\ b_saved
    /\ bias_report.bias_flags # <<>>
    /\ Len(bias_report.credit_distribution) >= 2

\* C15: in every run, when the anomaly detection step executes, the load of
\* the run's cleaned courses and prerequisites has succeeded.
C15_AnomaliesAfterLoad ==
    (p_try # <<>> /\ p_ti["detect_anomalies"] \in {"success", "up_for_retry", "failed"}) =>
        /\ p_ti["load_data"] = "success"
        /\ p_committed = {"courses", "prerequisites"}

(***************************************************************************)
(* Properties of load_data                                                 *)
(***************************************************************************)
BothReturned(k) ==
    /\ k + 1 <= Len(l_log)
    /\ l_log[k].outcome = "returned"
    /\ l_log[k + 1].outcome = "returned"

\* C16: when load_data runs twice in succession on the same cleaned frames and
\* both calls return, the second call leaves courses and prerequisites exactly
\* as the first left them, reports 0 inserted for both tables, and the tables
\* hold at most one row per course_code and per (course_code,
\* required_course_code).
C16_Rerunnable ==
    \A k \in 1..MaxLoads :
        BothReturned(k) =>
            /\ l_log[k + 1].courses = l_log[k].courses
            /\ l_log[k + 1].prerequisites = l_log[k].prerequisites
            /\ l_log[k + 1].counts.courses_inserted = 0
            /\ l_log[k + 1].counts.prerequisites_inserted = 0
            /\ \A r1, r2 \in l_log[k + 1].courses :
                   r1.course_code = r2.course_code => r1 = r2

C16_Witness ==
    /\ BothReturned(1)
    /\ l_log[1].counts.courses_inserted > 0
    /\ l_log[1].counts.prerequisites_inserted > 0
    /\ Cardinality(l_log[1].courses) > l_log[1].counts.courses_inserted
    /\ l_log[2].counts.courses_inserted = 0

\* C17: in a bias report, an expected program that has exactly 10% of the
\* courses of the frame is not flagged LOW COVERAGE, and every expected
\* program without a course in the frame is flagged MISSING PROGRAM.
C17_CoverageMath ==
    b_saved =>
        \A p \in 1..Len(ExpectedPrograms) :
            /\ (TotalCourses(b_courses) > 0
                  /\ 10 * ProgramCount(b_courses, p) = TotalCourses(b_courses))
                  => ~HasFlag("LOW COVERAGE", ExpectedPrograms[p])
            /\ ProgramCount(b_courses, p) = 0
                  => HasFlag("MISSING PROGRAM", ExpectedPrograms[p])

\* a report on ten courses, one of them of MS_CS, and a program without any
C17_Witness ==
    /\ b_saved
    /\ TotalCourses(b_courses) = 10
    /\ ProgramCount(b_courses, 3) = 1
    /\ Coverage("MS_CS").percentage = 1000
    /\ \E q \in 1..Len(ExpectedPrograms) : ProgramCount(b_courses, q) = 0

\* the largest per-program average of credits minus the smallest is greater
\* than 1, over the programs that have a course, on the exact averages
ExactImbalance(c) ==
    \E p, q \in 1..Len(ExpectedPrograms) :
        /\ ProgramCount(c, p) > 0
        /\ ProgramCount(c, q) > 0
        /\ ProgramCredits(c, p) * ProgramCount(c, q) - ProgramCredits(c, q) * ProgramCount(c, p)
              > ProgramCount(c, p) * ProgramCount(c, q)

ImbalanceFlags ==
    { i \in 1..Len(bias_report.bias_flags) : bias_report.bias_flags[i].kind = "CREDIT IMBALANCE" }

\* C18: a bias report holds at most one CREDIT IMBALANCE flag, and holds it
\* exactly when the largest per-program average of credits minus the smallest
\* (over the programs that have at least one course) is greater than 1.0.
C18_SingleGlobalFlag ==
    b_saved =>
        /\ Cardinality(ImbalanceFlags) <= 1
        /\ ImbalanceFlags # {} <=> ExactImbalance(b_courses)

\* program_code and course_type of an input row as the normaliser compares
\* them: trimmed, then upper-cased and title-cased
ValidEnumerated(r) ==
    /\ NormaliseRow(r).program_code \in VALID_PROGRAM_CODES
    /\ NormaliseRow(r).course_type \in VALID_COURSE_TYPES

InOutput(r) == \E k \in 1..Len(courses_clean) : courses_clean[k] = NormaliseRow(r)

\* C19: every row in the output of preprocess_courses has a program_code of
\* the five expected codes and a course_type of Core or Elective, and every
\* input row whose normalised program_code or course_type is outside those
\* sets is absent from the output.
C19_EnumeratedFiltered ==
    norm_pc = "codes" =>
        /\ \A k \in 1..Len(courses_clean) :
              /\ courses_clean[k].program_code \in VALID_PROGRAM_CODES
              /\ courses_clean[k].course_type \in VALID_COURSE_TYPES
        /\ \A i \in 1..Len(raw_courses) :
              ~ValidEnumerated(raw_courses[i]) => ~InOutput(raw_courses[i])

\* a row with an unknown program code is removed while a row spelled in lower
\* case with blanks is kept
C19_Witness ==
    /\ norm_pc = "codes"
    /\ Len(raw_courses) = 2
    /\ \E i \in 1..2 :
          /\ NoNull(raw_courses[i])
          /\ NormaliseRow(raw_courses[i]).program_code \notin VALID_PROGRAM_CODES
          /\ ~InOutput(raw_courses[i])
    /\ \E i \in 1..2 :
          /\ raw_courses[i].program_code \notin VALID_PROGRAM_CODES
          /\ InOutput(raw_courses[i])
    /\ Len(courses_clean) = 1

\* C20: an input row with no null required field, which is the first row of
\* the input carrying its course_code and has a valid program_code and
\* course_type, is in the output of preprocess_courses whatever its credits.
C20_CreditsNeverDrop ==
    norm_pc = "codes" =>
        \A i \in 1..Len(raw_courses) :
            ( /\ NoNull(raw_courses[i])
              /\ \A j \in 1..(i - 1) :
                    HasCode(raw_courses[j]) =>
                       TrimUpper(raw_courses[j].course_code) # TrimUpper(raw_courses[i].course_code)
              /\ ValidEnumerated(raw_courses[i]) )
            => InOutput(raw_courses[i])

\* rows with credits 0 and -1 of two different codes, both kept
C20_Witness ==
    /\ norm_pc = "codes"
    /\ Len(raw_courses) = 2
    /\ raw_courses[1].credits = 0
    /\ raw_courses[2].credits = -1
    /\ Len(courses_clean) = 2
    /\ courses_clean[1].credits = 0
    /\ courses_clean[2].credits = -1

\* a violation of the given check is in the list returned
HasViolation(check) == check \in Checks(v_out)

\* C21: for a Course frame with all required columns, validate_courses
\* returns the empty list exactly when no required field is null, no
\* course_code is repeated, every program_code and course_type is of the
\* enumerated sets and every credits value is greater than 0; a null
\* course_code yields no_nulls, a repeated code unique_course_code, an unknown
\* program valid_program_code.
C21_CoursesCleanIffEmpty ==
    (v_fn = "validate_courses" /\ v_columns = ColumnSet(CourseColumns)) =>
        /\ v_out.raised = "none"
        /\ v_out.violations = <<>> <=>
              /\ \A i \in 1..Len(v_df) :
                    /\ ~AnyNull(v_df[i])
                    /\ v_df[i].program_code \in VALID_PROGRAM_CODES
                    /\ v_df[i].course_type \in VALID_COURSE_TYPES
                    /\ v_df[i].credits > 0
              /\ \A i, j \in 1..Len(v_df) :
                    v_df[i].course_code = v_df[j].course_code => i = j
        /\ (\E i \in 1..Len(v_df) : v_df[i].course_code = None)
              => \E k \in 1..Len(v_out.violations) :
                    /\ v_out.violations[k].check = "no_nulls"
                    /\ v_out.violations[k].column = "course_code"
        /\ (\E i, j \in 1..Len(v_df) : i # j /\ v_df[i].course_code = v_df[j].course_code)
              => HasViolation("unique_course_code")
        /\ (\E i \in 1..Len(v_df) : v_df[i].program_code \notin VALID_PROGRAM_CODES)
              => HasViolation("valid_program_code")

\* a frame of two clean rows that passes, all columns present
C21_Witness ==
    /\ v_fn = "validate_courses"
    /\ v_columns = ColumnSet(CourseColumns)
    /\ Len(v_df) = 2
    /\ v_out = Returned(<<>>)

\* C22: for an edge frame with both columns, validate_prerequisites returns
\* the empty list exactly when no endpoint is null, no (course_code,
\* required_course_code) pair is repeated, no edge has equal endpoints and
\* both endpoints of every edge are in the given valid codes; an edge with
\* equal endpoints always yields a no_self_reference violation.
C22_PrereqsCleanIffEmpty ==
    (v_fn = "validate_prerequisites" /\ v_columns = ColumnSet(PrereqColumns)) =>
        /\ v_out.raised = "none"
        /\ v_out.violations = <<>> <=>
              /\ \A i \in 1..Len(v_df) :
                    /\ v_df[i].course_code # None
                    /\ v_df[i].required_course_code # None
                    /\ v_df[i].course_code # v_df[i].required_course_code
                    /\ v_df[i].course_code \in v_codes
                    /\ v_df[i].required_course_code \in v_codes
              /\ \A i, j \in 1..Len(v_df) : v_df[i] = v_df[j] => i = j
        /\ (\E i \in 1..Len(v_df) :
               /\ v_df[i].course_code # None
               /\ v_df[i].course_code = v_df[i].required_course_code)
              => HasViolation("no_self_reference")

\* two different edges between the valid codes pass
C22_Witness ==
    /\ v_fn = "validate_prerequisites"
    /\ v_columns = ColumnSet(PrereqColumns)
    /\ Len(v_df) = 2
    /\ v_codes # {}
    /\ v_out = Returned(<<>>)

\* the Course checks a frame breaks, counted as validate_courses reports
\* them: one per column holding a null, one per other check
BrokenCourseChecks(f) ==
    { <<"no_nulls", c>> : c \in { c \in ColumnSet(CourseColumns) :
                                    \E i \in 1..Len(f) :
                                       IF c = "credits" THEN f[i][c] = NaN
                                                        ELSE f[i][c] = None } }
    \cup (IF \E i, j \in 1..Len(f) : i # j /\ f[i].course_code = f[j].course_code
          THEN {<<"unique_course_code", "-">>} ELSE {})
    \cup (IF \E i \in 1..Len(f) : f[i].program_code \notin VALID_PROGRAM_CODES
          THEN {<<"valid_program_code", "-">>} ELSE {})
    \cup (IF \E i \in 1..Len(f) : f[i].course_type \notin VALID_COURSE_TYPES
          THEN {<<"valid_course_type", "-">>} ELSE {})
    \cup (IF \E i \in 1..Len(f) : f[i].credits # NaN /\ f[i].credits <= 0
          THEN {<<"positive_credits", "-">>} ELSE {})

\* C23: when the edge frame lacks course_code or required_course_code,
\* validate_prerequisites returns exactly one violation, required_columns, and
\* validate_data still counts the violations of the Course checks in the
\* total it reports.
C23_PrereqShortCircuit ==
    /\ (v_fn = "validate_prerequisites" /\ v_columns # ColumnSet(PrereqColumns)) =>
          /\ v_out.raised = "none"
          /\ Len(v_out.violations) = 1
          /\ v_out.violations[1].check = "required_columns"
    /\ ( /\ v_fn = "validate_data"
         /\ v_columns.prerequisites # ColumnSet(PrereqColumns)
         /\ v_columns.courses = ColumnSet(CourseColumns) ) =>
          /\ v_out.raised = "ValueError"
          /\ v_out.count = 1 + Cardinality(BrokenCourseChecks(v_df.courses))

\* a call of validate_data on an edge frame without required_course_code that
\* holds an edge, and a Course frame that breaks two checks
C23_Witness ==
    /\ v_fn = "validate_data"
    /\ v_columns.courses = ColumnSet(CourseColumns)
    /\ v_columns.prerequisites = {"course_code"}
    /\ Len(v_df.prerequisites) = 2
    /\ Cardinality(BrokenCourseChecks(v_df.courses)) = 2
    /\ v_out = [raised |-> "ValueError", count |-> 3]

\* the checks that the validator reports on the output of preprocess_data
CleanedCourseChecks ==
    Checks(validate_courses(courses_clean, ColumnSet(CourseColumns)))

CleanedPrereqChecks ==
    Checks(validate_prerequisites(prereqs_clean, ColumnSet(PrereqColumns),
                                  CodesOf(courses_clean)))

\* C24: on the output of preprocess_data, validate_courses can report only
\* positive_credits and validate_prerequisites only no_self_reference; an
\* edge from a kept course to itself is not removed by the normaliser.
C24_NormalisedPassesValidator ==
    norm_pc = "done" =>
        /\ validate_courses(courses_clean, ColumnSet(CourseColumns)).raised = "none"
        /\ CleanedCourseChecks \subseteq {"positive_credits"}
        /\ CleanedPrereqChecks \subseteq {"no_self_reference"}
        /\ \A i \in 1..Len(raw_prereqs) :
              ( /\ raw_prereqs[i].course_code # None
                /\ raw_prereqs[i].required_course_code # None
                /\ TrimUpper(raw_prereqs[i].course_code)
                      = TrimUpper(raw_prereqs[i].required_course_code)
                /\ TrimUpper(raw_prereqs[i].course_code) \in CodesOf(courses_clean) )
              => "no_self_reference" \in CleanedPrereqChecks

\* an output with a course of credits 0 and a self-loop: both are reported
C24_Witness ==
    /\ norm_pc = "done"
    /\ CleanedCourseChecks = {"positive_credits"}
    /\ CleanedPrereqChecks = {"no_self_reference"}
    /\ Len(raw_prereqs) = 2
    /\ Len(prereqs_clean) = 1

\* C25: when the first row of a course_code, in input order among the rows
\* without a null required field, has a program_code or course_type outside
\* the allowed sets, no output row carries that code, whatever later rows of
\* the code hold.
C25_DedupBeforeFilter ==
    norm_pc = "codes" =>
        \A i \in 1..Len(raw_courses) :
            ( /\ NoNull(raw_courses[i])
              /\ i = FirstIndex(TrimUpper(raw_courses[i].course_code), NoNull)
              /\ ~ValidEnumerated(raw_courses[i]) )
            => TrimUpper(raw_courses[i].course_code) \notin CodesOf(courses_clean)

\* an invalid first row followed by a fully valid row of the same code:
\* nothing is kept
C25_Witness ==
    /\ norm_pc = "codes"
    /\ Len(raw_courses) = 2
    /\ NoNull(raw_courses[1]) /\ NoNull(raw_courses[2])
    /\ TrimUpper(raw_courses[1].course_code) = TrimUpper(raw_courses[2].course_code)
    /\ ~ValidEnumerated(raw_courses[1])
    /\ ValidEnumerated(raw_courses[2])
    /\ courses_clean = <<>>

\* the course codes that occur in the table
CodesIn(table) == { e[1] : e \in table } \cup { e[2] : e \in table }

\* C26: the traversal never extends a chain past the first row whose
\* course_code is already in its visited path: the path of a chain row has no
\* repeated code before its last element, so no chain is longer than the
\* number of distinct courses plus one and the recursion runs out of rows.
C26_ChainsBounded ==
    \A row \in prereq_chain \cup working :
        /\ Len(row.visited) <= Cardinality(CodesIn(prerequisites)) + 1
        /\ \A i, j \in 1..(Len(row.visited) - 1) :
              row.visited[i] = row.visited[j] => i = j
        /\ row.is_cycle <=>
              \E i \in 1..(Len(row.visited) - 1) : row.visited[i] = row.course_code

\* the traversal of a three-cycle has ended with a chain of four rows
C26_Witness ==
    /\ cte_pc = "done"
    /\ working = {}
    /\ prerequisites = {<<1, 2>>, <<2, 3>>, <<3, 1>>}
    /\ \E row \in prereq_chain : row.visited = <<1, 2, 3, 1>> /\ row.is_cycle

(***************************************************************************)
(* C27: each table load is all-or-nothing.  In a call of load_courses or   *)
(* load_prerequisites rows are persisted only by the commit that follows   *)
(* the last statement, and then all rows of the call are; once anything    *)
(* raised in the try no row of the call is persisted, the exception stays  *)
(* pending through rollback and close, and the call ends by raising; a     *)
(* call that returns has persisted every row of its frame.                 *)
(***************************************************************************)
C27_AllOrNothing ==
    t_fn \in LoadFns =>
        /\ t_persisted \in {0, t_rows}
        /\ t_persisted # 0 =>
              /\ t_executed = t_rows
              /\ t_exc = "none"
              /\ t_pc \in {"close", "returned"}
        /\ t_exc # "none" =>
              /\ t_persisted = 0
              /\ t_pc \in {"rollback", "close", "raised"}
        /\ t_pc = "raised" => t_exc # "none" /\ t_persisted = 0
        /\ t_pc = "returned" => t_exc = "none" /\ t_persisted = t_rows

\* a loader raised after the first row of a two-row frame was executed, the
\* rollback succeeded, and no row is persisted
C27_Witness ==
    /\ t_fn \in LoadFns
    /\ t_pc = "raised"
    /\ t_exc = "Error"
    /\ t_rows = 2
    /\ t_executed = 1
    /\ t_persisted = 0

(***************************************************************************)
(* C28: no connection leaks.  Whenever one of the four functions has       *)
(* returned or raised, every connection it opened is closed, whichever of  *)
(* the query, the commit or the rollback failed; at most one connection is *)
(* open at a time.                                                         *)
(***************************************************************************)
C28_NoConnectionLeak ==
    /\ t_open \in {0, 1}
    /\ t_pc \in {"idle", "connect", "returned", "raised"} => t_open = 0
    /\ t_pc \in {"execute", "commit", "rollback", "close"} => t_open = 1

\* a loader whose commit raised and whose rollback raised too has closed its
\* connection
C28_Witness ==
    /\ t_fn \in LoadFns
    /\ t_pc = "raised"
    /\ t_exc = "RollbackError"
    /\ t_executed = t_rows
    /\ t_open = 0

(***************************************************************************)
(* C29: alerting can never fail a task.  No exception leaves               *)
(* send_slack_alert; with SLACK_WEBHOOK_URL unset it returns after the     *)
(* warning without posting; an exception of the post or of the status      *)
(* check is caught and logged as an error; and the task ends as its own    *)
(* work decided: success, or the exception the work raised.                *)
(***************************************************************************)
C29_AlertNeverFailsTask ==
    /\ s_pc # "raised"
    /\ s_webhook = "unset" /\ s_pc \in {"returned", "done"} =>
          ~s_posted /\ s_log = "warning" /\ s_exc = "none"
    /\ s_exc # "none" /\ s_pc \in {"returned", "done"} => s_log = "error"
    /\ s_pc = "done" =>
          s_outcome = (IF s_body = "none" THEN "success" ELSE s_body)

\* the post failed with an error status in a task whose work succeeded, and
\* the task succeeded
C29_Witness ==
    /\ s_pc = "done"
    /\ s_posted
    /\ s_exc = "HTTPError"
    /\ s_body = "none"
    /\ s_outcome = "success"

\* how many entries of the three lists of pipeline_results name the blob
ListedTimes(results, name) ==
    Cardinality({ i \in 1..Len(results.success) : results.success[i].source_file = name })
    + Cardinality({ i \in 1..Len(results.failed) : results.failed[i] = name })
    + Cardinality({ i \in 1..Len(results.skipped) : results.skipped[i] = name })

(***************************************************************************)
(* C30: the outcomes of the PDF pipeline partition the blobs.  Every blob  *)
(* the loop has handled is in exactly one of the success, failed and       *)
(* skipped lists and no other blob is in any; so in the summary that       *)
(* run_pipeline returns successful + skipped + failed = total_pdfs_found,  *)
(* the number of PDF blobs listed.                                         *)
(***************************************************************************)
C30_OutcomePartition ==
    /\ \A k \in 1..Len(d_blobs) :
          ListedTimes(d_results, d_blobs[k].name) = (IF k <= d_i THEN 1 ELSE 0)
    /\ Len(d_results.success) + Len(d_results.failed) + Len(d_results.skipped) = d_i
    /\ d_summary # <<>> =>
          /\ d_pc = "returned"
          /\ d_i = Len(d_blobs)
          /\ d_summary[1].total_pdfs_found = Len(d_blobs)
          /\ d_summary[1].successful + d_summary[1].skipped + d_summary[1].failed
                = d_summary[1].total_pdfs_found

\* a run over three blobs returned a summary with one blob in each list
C30_Witness ==
    /\ d_pc = "returned"
    /\ d_summary # <<>>
    /\ d_summary[1].total_pdfs_found = 3
    /\ d_summary[1].successful = 1
    /\ d_summary[1].skipped = 1
    /\ d_summary[1].failed = 1

====
